---------------------------- MODULE Spec2Model ----------------------------
(***************************************************************************)
(* Word-wrap engine of src/interface/display.py: Text.split and            *)
(* Text._force_split, _Line.fit_text, _TextWrap (wrap passes, mark_wrap,   *)
(* scrolling, rendering) and the cursor mapping of InputBox.               *)
(*                                                                         *)
(* A Python str is a sequence of one-character strings.  A Text object is  *)
(* an entry of the arena `texts`; its index stands for id(text).  A dict   *)
(* keyed by id(text) is a function whose domain is a set of indices.       *)
(***************************************************************************)
EXTENDS Integers, Sequences, FiniteSets, TLC

(***************************************************************************)
(* Bounds of the model.                                                    *)
(***************************************************************************)
MaxSegLen == 4          \* longest text_segment handed to split (SpecSplit)
MaxWrapLoops == 16      \* iterations of the loop of one wrap pass
MaxTexts == 2           \* Text objects added to the box
MaxTextLen == 3         \* characters of an added or changed text
MaxWidthChars == 2      \* widest viewport, in characters
MaxHeightLines == 2     \* tallest viewport, in lines
MaxScroll == 2          \* largest |n| of scroll_lines(n)
MaxLineNum == 2         \* largest line_num scrolled to while the box has no line
MaxKeyTime == 16        \* latest get_time() while keys are held, in 32nds of a second
MaxLines == 6           \* committed lines of a box
MaxQueue == 4           \* most Text objects, and longest queue, of a fit_text call
MaxCursorTries == 12    \* retries and nested calls of one _update_cursor_pos
MaxDragTime == 2        \* longest drag, in 32nds of a second
MaxTime == 48           \* latest get_time() of the model, in 32nds of a second
MaxTyped == 3           \* most characters in the box when a character is typed

(***************************************************************************)
(* Glyph metrics of the monospace font of the doctests: font.size("-") is  *)
(* (12, 24).                                                               *)
(***************************************************************************)
CharWidth == 12
CharHeight == 24

(***************************************************************************)
(* Python helpers.                                                         *)
(***************************************************************************)
\* s[:n] for 0 <= n
Take(s, n) == SubSeq(s, 1, IF n < Len(s) THEN n ELSE Len(s))

\* s[n:] for 0 <= n
Drop(s, n) == SubSeq(s, n + 1, Len(s))

Max(a, b) == IF a >= b THEN a ELSE b

\* dict operations: d[k] = v, del d[k], {}
DictSet(d, k, v) == [x \in DOMAIN d \cup {k} |-> IF x = k THEN v ELSE d[x]]

DictDel(d, k) == [x \in DOMAIN d \ {k} |-> d[x]]

EmptyDict == [x \in {} |-> <<>>]

\* list.reverse()
RECURSIVE Reverse(_)
Reverse(s) == IF s = <<>> THEN <<>> ELSE Reverse(Tail(s)) \o <<Head(s)>>

\* a membership test that never finds anything
NotIn(x, s) == FALSE

\* x in list
In(x, s) == \E i \in 1..Len(s) : s[i] = x

Min(a, b) == IF a <= b THEN a ELSE b

\* list.index(x): position (from 0) of the first occurrence
RECURSIVE IndexOf(_, _, _)
IndexOf(s, x, from) ==
    IF from > Len(s) THEN Len(s)
    ELSE IF s[from] = x THEN from - 1
    ELSE IndexOf(s, x, from + 1)

Range(s) == {s[i] : i \in 1..Len(s)}

(***************************************************************************)
(* TextWrap constants.                                                     *)
(***************************************************************************)
SPLIT_CHARS_AFTER ==
    <<" ", "-", ".", ",", "!", "?", ";", "/", "\\", ")", ">", "]", "}", "+",
      "*", "&", "^", "%", "grave">>   \* "grave" stands for the backquote

SPLIT_CHARS_AFTER_SET == Range(SPLIT_CHARS_AFTER)

SPLIT_CHARS_BEFORE == <<"(", "<", "[", "{", "_", "$", "#", "@", "|", "~", "N">>

SPLIT_CHARS_ALL == SPLIT_CHARS_AFTER \o SPLIT_CHARS_BEFORE

SPLIT_CHARS_ALL_SET == Range(SPLIT_CHARS_ALL)

(***************************************************************************)
(* Text.get_size: the font's size of a string.  The font of the model is   *)
(* monospace; an empty string has width 0 and the font's height.           *)
(***************************************************************************)
get_size(text) == <<CharWidth * Len(text), CharHeight>>

(***************************************************************************)
(* Text._force_split.  The loop runs ind over range(len(text_segment));    *)
(* best_ind = -1 stands for None.                                          *)
(***************************************************************************)
\* the loop without "Single char does not fit on a line to itself"
RECURSIVE force_split_loop_kept(_, _, _, _, _)
force_split_loop_kept(seg, ind, best_ind, remaining_width, box_width) ==
    IF ind >= Len(seg) THEN [best_ind |-> best_ind, text_segment |-> seg]
    ELSE
        LET segment == Take(seg, ind + 1) \o <<"-">>
            segment_width == get_size(segment)[1]
            best == IF ind > 0 THEN ind - 1 ELSE best_ind
        IN  IF segment_width > remaining_width
            THEN [best_ind |-> best, text_segment |-> seg]
            ELSE force_split_loop_kept(seg, ind + 1, best, remaining_width, box_width)

RECURSIVE force_split_loop(_, _, _, _, _)
force_split_loop(seg, ind, best_ind, remaining_width, box_width) ==
    IF ind >= Len(seg) THEN [best_ind |-> best_ind, text_segment |-> seg]
    ELSE
        LET segment == Take(seg, ind + 1) \o <<"-">>
            segment_width == get_size(segment)[1]
            best == IF ind > 0 THEN ind - 1 ELSE best_ind
        IN  IF segment_width > remaining_width
            THEN [best_ind |-> best,
                  text_segment |->
                      IF ind = 0 /\ remaining_width = box_width
                      THEN <<>> ELSE seg]
            ELSE force_split_loop(seg, ind + 1, best, remaining_width, box_width)

\* a forced split that skips the character at the cut
_force_split_skipping(text_segment, remaining_width, box_width) ==
    LET r == force_split_loop(text_segment, 0, -1, remaining_width, box_width)
        best_segment == IF r.best_ind = -1 THEN <<>>
                        ELSE Take(r.text_segment, r.best_ind + 1) \o <<"-">>
        other_segment == IF r.best_ind = -1 THEN r.text_segment
                         ELSE Drop(r.text_segment, r.best_ind + 2)
    IN  [best_segment |-> best_segment, other_segment |-> other_segment,
         text_segment |-> best_segment]

\* returns [best_segment, other_segment, text_segment]: the returned pair and
\* the Text's text_segment afterwards
_force_split(text_segment, remaining_width, box_width) ==
    LET r == force_split_loop(text_segment, 0, -1, remaining_width, box_width)
        best_segment == IF r.best_ind = -1 THEN <<>>
                        ELSE Take(r.text_segment, r.best_ind + 1) \o <<"-">>
        other_segment == IF r.best_ind = -1 THEN r.text_segment
                         ELSE Drop(r.text_segment, r.best_ind + 1)
    IN  [best_segment |-> best_segment, other_segment |-> other_segment,
         text_segment |-> best_segment]

(***************************************************************************)
(* Text.split.  possible_split_points is a dict char -> (text_segment,     *)
(* other_segment); the model keeps char -> split_ind, both segments being  *)
(* the two sides of text_segment at split_ind.                             *)
(***************************************************************************)
\* a sort key that ranks the table backwards
_split_chars_sort_reversed(char) == 0 - IndexOf(SPLIT_CHARS_ALL, char, 1)

_split_chars_sort(char) == IndexOf(SPLIT_CHARS_ALL, char, 1)

RECURSIVE split_scan(_, _, _, _, _)
split_scan(seg, ind, points, remaining_width, box_width) ==
    IF ind >= Len(seg) THEN points
    ELSE
        LET char == seg[ind + 1]
            after == char \in SPLIT_CHARS_AFTER_SET
            split_ind == IF after THEN ind + 1 ELSE ind
        IN  IF ~after /\ ind = 0 /\ remaining_width = box_width
            THEN split_scan(seg, ind + 1, points, remaining_width, box_width)
            ELSE IF get_size(Take(seg, split_ind))[1] <= remaining_width
            THEN split_scan(seg, ind + 1,
                     IF char \in SPLIT_CHARS_ALL_SET /\ char # "N"
                     THEN [c \in DOMAIN points \cup {char} |->
                              IF c = char THEN split_ind ELSE points[c]]
                     ELSE points,
                     remaining_width, box_width)
            ELSE points

split(text_segment, remaining_width, box_width) ==
    LET start == IF remaining_width < box_width /\ "N" \in SPLIT_CHARS_ALL_SET
                 THEN [c \in {"N"} |-> 0]
                 ELSE [c \in {} |-> 0]
        possible_split_points ==
            split_scan(text_segment, 0, start, remaining_width, box_width)
    IN  IF DOMAIN possible_split_points # {}
        THEN LET best_split_char ==
                     CHOOSE c \in DOMAIN possible_split_points :
                         \A d \in DOMAIN possible_split_points :
                             _split_chars_sort(c) <= _split_chars_sort(d)
                 split_ind == possible_split_points[best_split_char]
                 best_segments == <<Take(text_segment, split_ind),
                                    Drop(text_segment, split_ind)>>
             IN  [best_segment |-> best_segments[1],
                  other_segment |-> best_segments[2],
                  text_segment |-> best_segments[1]]
        ELSE _force_split(text_segment, remaining_width, box_width)

(***************************************************************************)
(* Text objects.  texts[id] is [all_text, text_segment, new_line, label].  *)
(* Every Text of a box has the same font, as in main.py and wrap_tests.    *)
(***************************************************************************)
Text(text, new_line, label) ==
    [all_text |-> text, text_segment |-> text, new_line |-> new_line,
     label |-> label]

\* Text.set_text_segment
set_text_segment(texts, id, text_segment) ==
    [texts EXCEPT ![id].text_segment = text_segment]

\* Text.reset_text
reset_text(texts, id) ==
    [texts EXCEPT ![id].text_segment = texts[id].all_text]

\* Text.change_text
Text_change_text(texts, id, text) ==
    [texts EXCEPT ![id].all_text = text, ![id].text_segment = text]

(***************************************************************************)
(* _Line.                                                                  *)
(***************************************************************************)
_Line ==
    [text_list |-> <<>>, width |-> 0, height |-> 0,
     text_segments |-> EmptyDict, new_line |-> FALSE]

\* _Line.get_text_segment
get_text_segment(line, texts, id) ==
    IF id \in DOMAIN line.text_segments
    THEN line.text_segments[id]
    ELSE texts[id].text_segment

\* _Line.get_line_string
RECURSIVE concat_segments(_, _, _)
concat_segments(line, texts, i) ==
    IF i > Len(line.text_list) THEN <<>>
    ELSE get_text_segment(line, texts, line.text_list[i])
             \o concat_segments(line, texts, i + 1)

get_line_string(line, texts) == concat_segments(line, texts, 1)

(***************************************************************************)
(* _Line.fit_text.  st is [line, box_text_list, texts, added_text,         *)
(* following_text_segment]; following_text_segment is () or                *)
(* (text_id, segment).                                                     *)
(***************************************************************************)
\* _Line.fit_text, lines 609-625: the text does not fit on the line and
\* text_segments is what split made of it
fit_text_split(st, texts1, text_segments) ==
    LET text_id == Head(st.box_text_list)
        popped == Tail(st.box_text_list)
        line == st.line
        texts2 == set_text_segment(texts1, text_id, text_segments.text_segment)
        size2 == get_size(texts2[text_id].text_segment)
        line1 ==
            IF text_segments.best_segment # <<>>
            THEN [line EXCEPT
                     !.text_segments =
                         DictSet(line.text_segments, text_id,
                                 text_segments.best_segment),
                     !.width = line.width + size2[1],
                     !.height = Max(line.height, size2[2]),
                     !.text_list = Append(line.text_list, text_id)]
            ELSE line
    IN  [line |-> line1,
         box_text_list |->
             IF text_segments.other_segment # <<>>
             THEN st.box_text_list ELSE popped,
         texts |-> texts2,
         added_text |-> Append(st.added_text, text_id),
         following_text_segment |->
             IF text_segments.other_segment # <<>>
             THEN <<text_id, text_segments.other_segment>>
             ELSE st.following_text_segment]

RECURSIVE fit_text_loop(_, _)
\* a fit_text that never splits: whatever is popped goes on the line
fit_text_loop_unsplit(st, box_width) ==
    IF st.box_text_list = <<>> THEN st
    ELSE LET text_id == Head(st.box_text_list)
             size == get_size(st.texts[text_id].text_segment)
         IN  [st EXCEPT
                !.box_text_list = Tail(@),
                !.added_text = Append(@, text_id),
                !.line.text_list = Append(@, text_id),
                !.line.width = @ + size[1],
                !.line.height = Max(@, size[2])]

fit_text_loop(st, box_width) ==
    IF st.box_text_list = <<>> \/ st.line.new_line THEN st
    ELSE
        LET text_id == Head(st.box_text_list)
            popped == Tail(st.box_text_list)
            line == st.line
        IN  IF In(text_id, line.text_list)
            THEN \* This should only occur if text object reached bottom
                 [st EXCEPT !.following_text_segment =
                                <<text_id, st.texts[text_id].text_segment>>]
            ELSE
                LET texts1 == IF text_id \in DOMAIN line.text_segments
                              THEN set_text_segment(st.texts, text_id,
                                       line.text_segments[text_id])
                              ELSE st.texts
                    size == get_size(texts1[text_id].text_segment)
                IN  IF line.width + size[1] <= box_width
                    THEN LET line1 ==
                                 [line EXCEPT
                                     !.width = line.width + size[1],
                                     !.height = Max(line.height, size[2]),
                                     !.text_list = Append(line.text_list, text_id),
                                     !.new_line = texts1[text_id].new_line]
                             st1 == [st EXCEPT
                                        !.line = line1,
                                        !.box_text_list = popped,
                                        !.texts = texts1,
                                        !.added_text = Append(st.added_text, text_id)]
                         IN  fit_text_loop(st1, box_width)
                    ELSE fit_text_split(st, texts1,
                             split(texts1[text_id].text_segment,
                                   box_width - line.width, box_width))

\* a fit_text that takes a text only if it leaves room on the line
fit_text_tight(line, box_text_list, box_width, texts) ==
    fit_text_loop([line |-> line, box_text_list |-> box_text_list,
                   texts |-> texts, added_text |-> <<>>,
                   following_text_segment |-> <<>>], box_width - 1)

fit_text(line, box_text_list, box_width, texts) ==
    fit_text_loop([line |-> line, box_text_list |-> box_text_list,
                   texts |-> texts, added_text |-> <<>>,
                   following_text_segment |-> <<>>], box_width)

(***************************************************************************)
(* _TextWrap.  A box b is the record of the fields of one _TextWrap        *)
(* together with the arena of its Text objects:                            *)
(*   texts, new_text_list, wrapped_text_list, lines, line_num,             *)
(*   current_height, remaining_segments, pos, was_at_bottom, raised.       *)
(* pos is <<width, height>> of the box rectangle (pos[2], pos[3] of the    *)
(* source), <<>> while it is None.  raised tells that the operation ended  *)
(* by an uncaught IndexError.                                              *)
(***************************************************************************)
_TextWrap ==
    [texts |-> <<>>, new_text_list |-> <<>>, wrapped_text_list |-> <<>>,
     lines |-> <<>>, line_num |-> 0, current_height |-> 0,
     remaining_segments |-> EmptyDict, pos |-> <<>>, was_at_bottom |-> FALSE,
     raised |-> FALSE]

\* id in line (_Line.__contains__)
Line_contains(line, id) == In(id, line.text_list)

\* _TextWrap._get_lines: islice(self.lines, self.line_num, None)
_get_lines(b) == SubSeq(b.lines, b.line_num + 1, Len(b.lines))

RECURSIVE sum_heights(_, _)
sum_heights(ls, i) ==
    IF i > Len(ls) THEN 0 ELSE ls[i].height + sum_heights(ls, i + 1)

\* _TextWrap.calculate_height
\* a tally that counts the lines above the scroll offset too
calculate_height_all(b) ==
    [b EXCEPT !.current_height = sum_heights(b.lines, 1)]

calculate_height(b) ==
    [b EXCEPT !.current_height = sum_heights(_get_lines(b), 1)]

\* _TextWrap._get_final_line_num
RECURSIVE final_line_scan(_, _, _, _, _)
final_line_scan(ls, num, height, box_height, line_num) ==
    IF num >= Len(ls) THEN Max(num - 1, 0) + line_num
    ELSE IF height + ls[num + 1].height > box_height THEN num - 1 + line_num
    ELSE final_line_scan(ls, num + 1, height + ls[num + 1].height,
                         box_height, line_num)

_get_final_line_num(b) ==
    final_line_scan(_get_lines(b), 0, 0, b.pos[2], b.line_num)

\* _TextWrap.at_bottom
at_bottom(b) ==
    IF b.new_text_list # <<>> THEN FALSE
    ELSE Len(b.lines) <= _get_final_line_num(b) + 1

\* _TextWrap.scroll_lines; the recursive call has to_scroll >= 0 afterwards
scroll_lines(b, num_lines) ==
    LET n1 == Max(0, b.line_num + num_lines)
        to_scroll == Len(b.lines) - n1 - 1
        n2 == IF to_scroll < 0 /\ b.lines # <<>>
              THEN Max(0, n1 + to_scroll) ELSE n1
    IN  calculate_height([b EXCEPT !.line_num = n2])

(***************************************************************************)
(* _TextWrap._purge_segments.  _purge_segments_from_list pops the list     *)
(* from the right and keeps a Text whose id was not met before.            *)
(***************************************************************************)
RECURSIVE _purge_segments_from_list(_, _, _, _, _)
_purge_segments_from_list(text_list, used_text_ids, checked, texts, reset_segment) ==
    IF text_list = <<>>
    THEN [text_list |-> checked, used_text_ids |-> used_text_ids, texts |-> texts]
    ELSE LET text_id == text_list[Len(text_list)]
             rest == SubSeq(text_list, 1, Len(text_list) - 1)
         IN  IF text_id \notin used_text_ids
             THEN _purge_segments_from_list(rest, used_text_ids \cup {text_id},
                      <<text_id>> \o checked,
                      IF reset_segment THEN reset_text(texts, text_id) ELSE texts,
                      reset_segment)
             ELSE _purge_segments_from_list(rest, used_text_ids, checked, texts,
                      reset_segment)

\* _purge_segments(lists): the lists one after the other, one set of used ids
RECURSIVE purge_lists(_, _, _, _, _)
purge_lists(lists, i, used_text_ids, texts, reset_segment) ==
    IF i > Len(lists)
    THEN [lists |-> lists, texts |-> texts]
    ELSE LET r == _purge_segments_from_list(lists[i], used_text_ids, <<>>, texts,
                                            reset_segment)
         IN  purge_lists([lists EXCEPT ![i] = r.text_list], i + 1,
                         r.used_text_ids, r.texts, reset_segment)

\* _purge_segments(): wrapped_text_list, then new_text_list
_purge_segments(b, reset_segment) ==
    LET r == purge_lists(<<b.wrapped_text_list, b.new_text_list>>, 1, {},
                         b.texts, reset_segment)
    IN  [b EXCEPT !.wrapped_text_list = r.lists[1],
                  !.new_text_list = r.lists[2],
                  !.texts = r.texts]

(***************************************************************************)
(* _TextWrap._wrap_new_lines.                                              *)
(***************************************************************************)
\* a _next_line that always starts a new line
_next_line_new(b, force_new) == [b |-> b, line |-> _Line]

\* _TextWrap._next_line: [b, line]
_next_line(b, force_new) ==
    IF b.lines # <<>> /\ ~force_new
    THEN LET line == b.lines[Len(b.lines)]
         IN  [b |-> [b EXCEPT !.lines = SubSeq(b.lines, 1, Len(b.lines) - 1),
                              !.current_height = b.current_height - line.height],
              line |-> line]
    ELSE [b |-> b, line |-> _Line]

\* "Add segments lost after ceasing previous wrap at bottom": [line, remaining]
inject_remaining(line, remaining_segments) ==
    LET moved == IF line.new_line THEN {}
                 ELSE DOMAIN remaining_segments \ DOMAIN line.text_segments
    IN  [line |-> [line EXCEPT !.text_segments =
                      [id \in DOMAIN line.text_segments \cup moved |->
                          IF id \in moved THEN remaining_segments[id]
                          ELSE line.text_segments[id]]],
         remaining_segments |->
             [id \in DOMAIN remaining_segments \ moved |-> remaining_segments[id]]]

\* "Check if remaining segments added to line were unused": [line, remaining]
return_unused(line, remaining_segments) ==
    LET unused == {id \in DOMAIN line.text_segments : ~Line_contains(line, id)}
    IN  [line |-> [line EXCEPT !.text_segments =
                      [id \in DOMAIN line.text_segments \ unused |->
                          line.text_segments[id]]],
         remaining_segments |->
             [id \in DOMAIN remaining_segments \cup unused |->
                 IF id \in unused THEN line.text_segments[id]
                 ELSE remaining_segments[id]]]

\* "Move line and new segments into remaining segments": the loop over the
\* line's Text objects; returns [remaining_segments, new_text_segment]
RECURSIVE rollback_segments(_, _, _, _)
rollback_segments(line, i, remaining_segments, new_text_segment) ==
    IF i > Len(line.text_list)
    THEN [remaining_segments |-> remaining_segments,
          new_text_segment |-> new_text_segment]
    ELSE LET text_id == line.text_list[i]
             seg1 == IF text_id \in DOMAIN line.text_segments
                     THEN line.text_segments[text_id] ELSE <<>>
             hit == new_text_segment # <<>> /\ text_id = new_text_segment[1]
             segment == IF hit THEN seg1 \o new_text_segment[2] ELSE seg1
         IN  rollback_segments(line, i + 1,
                 IF segment # <<>>
                 THEN DictSet(remaining_segments, text_id, segment)
                 ELSE remaining_segments,
                 IF hit THEN <<>> ELSE new_text_segment)

\* one pass of the while loop; w is [b, line, lines_added, loops, done]
RECURSIVE wrap_loop(_, _)
wrap_loop(w, all_) ==
    IF w.b.new_text_list = <<>> /\ DOMAIN w.line.text_segments = {}
    THEN w
    ELSE IF w.loops >= MaxWrapLoops THEN [w EXCEPT !.diverged = TRUE]
    ELSE
      LET box_width == w.b.pos[1]
          inj == inject_remaining(w.line, w.b.remaining_segments)
          \* the pass after line.fit_text returned fit and the unused
          \* segments went back, leaving ret
          fitted(fit, ret) ==
              LET line == ret.line
                  new_text_segment == fit.following_text_segment
                  b1 == [w.b EXCEPT !.texts = fit.texts,
                                    !.new_text_list = fit.box_text_list,
                                    !.remaining_segments = ret.remaining_segments]
              IN  IF ~all_ /\ b1.current_height + line.height > b1.pos[2]
                  THEN \* the line does not fit below the committed ones
                       IF (new_text_segment # <<>> \/ DOMAIN line.text_segments # {})
                          /\ line.text_list = <<>>
                       THEN \* id(line[0]): IndexError
                            [w EXCEPT !.b = [b1 EXCEPT !.raised = TRUE], !.line = line]
                       ELSE
                         LET rb == IF new_text_segment # <<>>
                                      \/ DOMAIN line.text_segments # {}
                                   THEN rollback_segments(line, 1, b1.remaining_segments,
                                                          new_text_segment)
                                   ELSE [remaining_segments |-> b1.remaining_segments,
                                         new_text_segment |-> <<>>]
                             remaining ==
                                 IF rb.new_text_segment # <<>>
                                 THEN DictSet(rb.remaining_segments,
                                              rb.new_text_segment[1],
                                              rb.new_text_segment[2])
                                 ELSE rb.remaining_segments
                             requeued == _purge_segments_from_list(
                                             line.text_list \o b1.new_text_list, {}, <<>>,
                                             b1.texts, FALSE)
                         IN  [w EXCEPT !.b = [b1 EXCEPT
                                                 !.remaining_segments = remaining,
                                                 !.new_text_list = requeued.text_list],
                                       !.line = line]
                  ELSE
                    LET wrapped == _purge_segments_from_list(
                                       b1.wrapped_text_list \o fit.added_text, {}, <<>>,
                                       b1.texts, FALSE)
                        lines1 == Append(b1.lines, line)
                        b2 == [b1 EXCEPT
                                  !.wrapped_text_list = wrapped.text_list,
                                  !.lines = lines1,
                                  !.current_height =
                                      IF Len(lines1) >= b1.line_num
                                      THEN b1.current_height + line.height
                                      ELSE b1.current_height]
                        next == IF new_text_segment # <<>>
                                   /\ new_text_segment[1] \notin DOMAIN b2.remaining_segments
                                THEN [_Line EXCEPT !.text_segments =
                                         DictSet(EmptyDict, new_text_segment[1],
                                                 new_text_segment[2])]
                                ELSE _Line
                    IN  wrap_loop([b |-> b2, line |-> next,
                                   lines_added |-> w.lines_added + 1,
                                   loops |-> w.loops + 1, diverged |-> FALSE], all_)
          unused(fit) ==
              fitted(fit, return_unused(fit.line, inj.remaining_segments))
      IN  unused(fit_text(inj.line, w.b.new_text_list, box_width, w.b.texts))

\* the while loop from the line nl that _next_line gave, and what the
\* caller keeps of it: [b, lines_added, diverged]
wrap_result(w) ==
    [b |-> w.b, lines_added |-> w.lines_added, diverged |-> w.diverged]

wrap_from(nl, all_) ==
    wrap_result(wrap_loop([b |-> nl.b, line |-> nl.line, lines_added |-> 0,
                           loops |-> 0, diverged |-> FALSE], all_))

\* a wrap pass that does not look whether text is pending
_wrap_new_lines_unguarded(b, all_, force_new_line) ==
    IF all_ \/ b.current_height < b.pos[2]
    THEN wrap_from(_next_line(b, force_new_line), all_)
    ELSE [b |-> b, lines_added |-> 0, diverged |-> FALSE]

\* a wrap pass that never stops at the bottom of the viewport
_wrap_new_lines_all(b, all_, force_new_line) ==
    IF b.new_text_list # <<>>
    THEN wrap_from(_next_line(b, force_new_line), TRUE)
    ELSE [b |-> b, lines_added |-> 0, diverged |-> FALSE]

\* returns [b, lines_added, diverged]
_wrap_new_lines(b, all_, force_new_line) ==
    IF b.new_text_list # <<>> /\ (all_ \/ b.current_height < b.pos[2])
    THEN wrap_from(_next_line(b, force_new_line), all_)
    ELSE [b |-> b, lines_added |-> 0, diverged |-> FALSE]

(***************************************************************************)
(* _TextWrap._find_segment_index: [index, raised].  all_text[i] raises     *)
(* IndexError when i >= len(all_text).                                     *)
(***************************************************************************)
RECURSIVE segment_chars(_, _, _, _, _)
segment_chars(segment, c, all_text, index, sub_index) ==
    IF c > Len(segment) \/ Len(all_text) <= sub_index
    THEN [sub_index |-> sub_index, raised |-> FALSE]
    ELSE IF index + sub_index >= Len(all_text)
    THEN [sub_index |-> sub_index, raised |-> TRUE]
    ELSE segment_chars(segment, c + 1, all_text, index,
             IF segment[c] = all_text[index + sub_index + 1]
             THEN sub_index + 1 ELSE sub_index)

RECURSIVE find_segment_lines(_, _, _, _)
find_segment_lines(b, text_obj, l, index) ==
    IF l > Len(b.lines) THEN [index |-> index, raised |-> FALSE]
    ELSE IF ~Line_contains(b.lines[l], text_obj)
    THEN find_segment_lines(b, text_obj, l + 1, index)
    ELSE LET r == segment_chars(get_text_segment(b.lines[l], b.texts, text_obj),
                                1, b.texts[text_obj].all_text, index, 0)
         IN  IF r.raised THEN [index |-> index, raised |-> TRUE]
             ELSE find_segment_lines(b, text_obj, l + 1, index + r.sub_index)

\* an index that counts nothing as displayed
_find_segment_index_zero(b, text_obj) == [index |-> 0, raised |-> FALSE]

\* an index that counts the first line with text_obj only
_find_segment_index_first(b, text_obj) ==
    LET on == {l \in 1..Len(b.lines) : Line_contains(b.lines[l], text_obj)}
    IN  IF on = {} THEN [index |-> 0, raised |-> FALSE]
        ELSE LET l == CHOOSE l \in on : \A m \in on : l <= m
                 r == segment_chars(
                          get_text_segment(b.lines[l], b.texts, text_obj),
                          1, b.texts[text_obj].all_text, 0, 0)
             IN  [index |-> r.sub_index, raised |-> r.raised]

_find_segment_index(b, text_obj) == find_segment_lines(b, text_obj, 1, 0)

(***************************************************************************)
(* _TextWrap.mark_wrap.                                                    *)
(***************************************************************************)
\* index in wrapped_text_list (from 0) of the first Text that lies on a purged
\* line, -1 for None
RECURSIVE find_start_ind(_, _, _)
find_start_ind(wrapped_text_list, purged_lines, text_num) ==
    IF text_num >= Len(wrapped_text_list) THEN -1
    ELSE IF \E l \in 1..Len(purged_lines) :
                Line_contains(purged_lines[l], wrapped_text_list[text_num + 1])
    THEN text_num
    ELSE find_start_ind(wrapped_text_list, purged_lines, text_num + 1)

\* the part of mark_wrap after remaining_segments is set
requeue_old_text(b, purged_lines, has_purged_line_list) ==
    LET start_ind == find_start_ind(b.wrapped_text_list, purged_lines, 0)
        found == IF start_ind = -1 THEN <<>>
                 ELSE Drop(b.wrapped_text_list, start_ind)
        aliased == found = <<>>      \* old_text is wrapped_text_list itself
        wrapped_rev == IF aliased THEN Reverse(b.wrapped_text_list)
                       ELSE b.wrapped_text_list
        b1 == [b EXCEPT !.wrapped_text_list = wrapped_rev]
        b2 == IF has_purged_line_list
              THEN [b1 EXCEPT !.texts =
                       purge_lists([l \in 1..Len(purged_lines) |->
                                       purged_lines[l].text_list],
                                   1, {}, b1.texts, TRUE).texts]
              ELSE _purge_segments(b1, TRUE)
        old_text == IF aliased THEN b2.wrapped_text_list ELSE Reverse(found)
        b3 == [b2 EXCEPT
                  !.new_text_list = Reverse(old_text) \o b2.new_text_list,
                  !.wrapped_text_list =
                      IF start_ind # -1 THEN Take(b2.wrapped_text_list, start_ind)
                      ELSE <<>>]
    IN  _purge_segments(b3, TRUE)

mark_wrap(b, start_line_arg) ==
    LET start_line == IF start_line_arg > 0 THEN start_line_arg - 1
                      ELSE start_line_arg
        purged_lines == IF start_line = 0 THEN <<>>
                        ELSE Drop(b.lines, start_line)
        lines1 == IF start_line = 0 THEN <<>> ELSE Take(b.lines, start_line)
        b1 == calculate_height(
                  [b EXCEPT !.lines = lines1,
                            !.line_num = Max(0, Min(Len(lines1) - 1, b.line_num)),
                            !.remaining_segments = EmptyDict,
                            !.raised = FALSE])
    IN  IF lines1 # <<>> /\ purged_lines # <<>>
        THEN IF purged_lines[1].text_list = <<>>
             THEN [b1 EXCEPT !.raised = TRUE]      \* first_dirty_line[0]
             ELSE LET first_dirty_text == purged_lines[1].text_list[1]
                  IN  IF Line_contains(lines1[Len(lines1)], first_dirty_text)
                      THEN LET e == _find_segment_index(b1, first_dirty_text)
                           IN  IF e.raised THEN [b1 EXCEPT !.raised = TRUE]
                               ELSE requeue_old_text(
                                        [b1 EXCEPT !.remaining_segments =
                                            DictSet(EmptyDict, first_dirty_text,
                                                Drop(b1.texts[first_dirty_text].all_text,
                                                     e.index))],
                                        purged_lines, TRUE)
                      ELSE requeue_old_text(b1, purged_lines, TRUE)
        ELSE requeue_old_text(b1, purged_lines, start_line # 0)

(***************************************************************************)
(* _TextWrap.get_box_string, add_text, change_text, clear_all_text, render *)
(***************************************************************************)
RECURSIVE lines_string(_, _, _)
lines_string(ls, texts, l) ==
    IF l > Len(ls) THEN <<>>
    ELSE get_line_string(ls[l], texts) \o lines_string(ls, texts, l + 1)

RECURSIVE all_text_of(_, _, _)
all_text_of(text_list, texts, i) ==
    IF i > Len(text_list) THEN <<>>
    ELSE texts[text_list[i]].all_text \o all_text_of(text_list, texts, i + 1)

get_box_string(b) ==
    lines_string(b.lines, b.texts, 1) \o all_text_of(b.new_text_list, b.texts, 1)

\* add_text([Text(text, font, new_line=new_line, label=label)])
add_text(b, text, new_line, label) ==
    [b EXCEPT !.texts = Append(b.texts, Text(text, new_line, label)),
              !.new_text_list = Append(b.new_text_list, Len(b.texts) + 1),
              !.raised = FALSE]

\* _Line.render of the lines drawn by _TextWrap.render: every Text of a drawn
\* line gets the segment it has on that line
RECURSIVE render_line(_, _, _)
render_line(line, texts, i) ==
    IF i > Len(line.text_list) THEN texts
    ELSE render_line(line,
             set_text_segment(texts, line.text_list[i],
                              get_text_segment(line, texts, line.text_list[i])),
             i + 1)

RECURSIVE render_lines(_, _, _, _, _)
render_lines(ls, texts, l, line_y, box_height) ==
    IF l > Len(ls) THEN texts
    ELSE IF ls[l].height + line_y <= box_height
    THEN render_lines(ls, render_line(ls[l], texts, 1), l + 1,
                      line_y + ls[l].height, box_height)
    ELSE texts

\* _TextWrap.render(display, pos): [b, lines_added, diverged]
render(b, pos) ==
    LET b0 == [b EXCEPT !.pos = pos, !.raised = FALSE]
        \* the frame after _wrap_new_lines returned w
        drawn(w) ==
            IF w.b.raised \/ w.diverged THEN w
            ELSE LET b1 == IF b0.was_at_bottom /\ w.lines_added # 0
                           THEN scroll_lines(w.b, w.lines_added - 1)
                           ELSE w.b
                     b2 == [b1 EXCEPT !.texts =
                               render_lines(_get_lines(b1), b1.texts, 1, 0, pos[2])]
                 IN  [b |-> [b2 EXCEPT !.was_at_bottom = at_bottom(b2)],
                      lines_added |-> w.lines_added, diverged |-> FALSE]
    IN  drawn(_wrap_new_lines(b0, b0.was_at_bottom, FALSE))

\* _TextWrap.get_labeled_text
RECURSIVE labeled(_, _, _, _)
labeled(text_list, texts, label, i) ==
    IF i > Len(text_list) THEN <<>>
    ELSE (IF texts[text_list[i]].label = label THEN <<text_list[i]>> ELSE <<>>)
             \o labeled(text_list, texts, label, i + 1)

get_labeled_text(b, label) ==
    labeled(b.wrapped_text_list \o b.new_text_list, b.texts, label, 1)

\* change_text that changes the first affected text only
change_all_first(texts, affected_text, string, i) ==
    Text_change_text(texts, affected_text[1], string)

RECURSIVE change_all(_, _, _, _)
change_all(texts, affected_text, string, i) ==
    IF i > Len(affected_text) THEN texts
    ELSE change_all(Text_change_text(texts, affected_text[i], string),
                    affected_text, string, i + 1)

\* _TextWrap.change_text
change_text(b, label, string) ==
    LET affected_text == get_labeled_text(b, label)
    IN  IF affected_text = <<>>
        THEN [b EXCEPT !.raised = TRUE]           \* affected_text[0]
        ELSE LET b1 == [b EXCEPT !.texts =
                           change_all(b.texts, affected_text, string, 1)]
                 first_changed == affected_text[1]
                 on == {l \in 1..Len(b1.lines) :
                           Line_contains(b1.lines[l], first_changed)}
                 line_num == IF on = {} THEN 0
                             ELSE (CHOOSE l \in on : \A m \in on : l <= m) - 1
             IN  mark_wrap(b1, line_num)

\* a clear that forgets the lines and leaves the two lists of texts
clear_lines(b) ==
    mark_wrap([b EXCEPT !.lines = <<>>, !.current_height = 0], 0)

\* _TextWrap.clear_all_text; _rewrap() then marks the box for a re-wrap
clear_all_text(b) ==
    mark_wrap([b EXCEPT !.lines = <<>>, !.current_height = 0,
                        !.wrapped_text_list = <<>>, !.new_text_list = <<>>], 0)

(***************************************************************************)
(* The state of one box.                                                   *)
(***************************************************************************)
(***************************************************************************)
(* InputBox: the cursor.  An input box ib is [b, cursor_index,             *)
(* cursor_rect, diverged]: its text_wrap, its cursor (cursor_rect is <<>>  *)
(* for None, else <<x, y, width, height>>) and whether a call did not      *)
(* return.                                                                 *)
(***************************************************************************)
DEFAULT_CURSOR_WIDTH == 1

InputBox(b) ==
    [b |-> b, cursor_index |-> 0, cursor_rect |-> <<>>, diverged |-> FALSE]

\* InputBox._bind_cursor
_bind_cursor(ib) ==
    LET num_chars == Len(get_box_string(ib.b))
    IN  [ib EXCEPT !.cursor_index = Min(num_chars, Max(0, ib.cursor_index))]

\* the loop "for char in segment" of _update_cursor_pos: the all_text
\* position after the characters of a segment, skipping those not in all_text
RECURSIVE count_sub_index(_, _, _, _)
count_sub_index(segment, c, all_text, sub_index) ==
    IF c > Len(segment) \/ Len(all_text) <= sub_index THEN sub_index
    ELSE count_sub_index(segment, c + 1, all_text,
             IF segment[c] = all_text[sub_index + 1]
             THEN sub_index + 1 ELSE sub_index)

\* the loop over the texts of one line; s is the scan state
RECURSIVE cursor_scan_texts(_, _, _, _, _)
cursor_scan_texts(b, cursor_index, _line_num, k, s) ==
    LET line == b.lines[_line_num + 1]
    IN  IF k > Len(line.text_list) THEN s
        ELSE
            LET text == line.text_list[k]
                sub0 == IF s.text_obj # text THEN 0 ELSE s.sub_index
                all_text == b.texts[text].all_text
                segment == get_text_segment(line, b.texts, text)
            IN  IF s.index + Len(segment) > cursor_index
                THEN LET remaining_chars == cursor_index - s.index
                         segment_before_cursor == Take(segment, remaining_chars)
                         sub_index == count_sub_index(segment_before_cursor,
                                                      1, all_text, sub0)
                         look_back == /\ segment_before_cursor = <<>>
                                      /\ sub_index # 0
                                      /\ _line_num # 0
                         prev_segment == get_text_segment(b.lines[_line_num],
                                                          b.texts, text)
                     IN  [s EXCEPT
                            !.text_obj = text,
                            !.sub_index = sub_index,
                            !.raised = look_back /\ prev_segment = <<>>,
                            !.after_dash =
                                /\ look_back
                                /\ prev_segment # <<>>
                                /\ all_text[sub_index]
                                       # prev_segment[Len(prev_segment)],
                            !.x_pos = @ + get_size(segment_before_cursor)[1],
                            !.found = TRUE]
                ELSE cursor_scan_texts(b, cursor_index, _line_num, k + 1,
                         [s EXCEPT
                            !.text_obj = text,
                            !.x_pos = @ + get_size(segment)[1],
                            !.index = @ + Len(segment),
                            !.sub_index = count_sub_index(segment, 1,
                                                          all_text, sub0)])

\* the loop over the lines; exhausted tells that the loop ran to its else
RECURSIVE cursor_scan_lines(_, _, _, _)
cursor_scan_lines(b, cursor_index, _line_num, s) ==
    IF _line_num >= Len(b.lines) THEN [s EXCEPT !.exhausted = TRUE]
    ELSE
        LET line == b.lines[_line_num + 1]
            s1 == cursor_scan_texts(b, cursor_index, _line_num, 1,
                      [s EXCEPT !.height = line.height, !.x_pos = 0])
            s2 == [s1 EXCEPT !.line_num = _line_num]
        IN  IF s2.found \/ s2.raised THEN s2
            ELSE cursor_scan_lines(b, cursor_index, _line_num + 1,
                     IF _line_num >= b.line_num
                     THEN [s2 EXCEPT !.y_pos = @ + line.height]
                     ELSE s2)

\* one pass of the body of "while True" up to final_line_num
cursor_scan(b, cursor_index) ==
    LET s == cursor_scan_lines(b, cursor_index, 0,
                 [index |-> 0, y_pos |-> 0, height |-> 0, found |-> FALSE,
                  line_num |-> 0, text_obj |-> 0, sub_index |-> 0,
                  after_dash |-> FALSE, x_pos |-> 0, exhausted |-> FALSE,
                  raised |-> FALSE])
    IN  IF s.exhausted /\ b.new_text_list = <<>>
        THEN LET last_line == b.lines[s.line_num + 1]
             IN  IF last_line.text_list = <<>>
                 THEN [s EXCEPT !.raised = TRUE]
                 ELSE [s EXCEPT
                         !.y_pos = @ - last_line.height,
                         !.sub_index =
                             Len(b.texts[last_line.text_list[
                                     Len(last_line.text_list)]].all_text),
                         !.found = TRUE]
        ELSE s

\* InputBox.get_index_from_point: the line covering point[1] among the lines
\* from the scroll offset (-1: past the last line)
RECURSIVE point_line(_, _, _, _)
point_line(ls, _line_num, current_height, y) ==
    IF _line_num >= Len(ls) THEN -1
    ELSE IF y < current_height + ls[_line_num + 1].height THEN _line_num
    ELSE point_line(ls, _line_num + 1,
                    current_height + ls[_line_num + 1].height, y)

\* the character of a segment covering x, from 0; Len(segment) stands for
\* the loop running out
RECURSIVE point_char(_, _, _, _)
point_char(segment, _char_ind, current_width, x) ==
    IF _char_ind >= Len(segment) THEN Len(segment)
    ELSE IF x < current_width + get_size(Take(segment, _char_ind + 1))[1]
    THEN _char_ind
    ELSE point_char(segment, _char_ind + 1, current_width, x)

\* the loop over the texts of the line covering the point
RECURSIVE point_text(_, _, _, _, _, _)
point_text(line, texts, k, char_ind, current_width, x) ==
    IF k > Len(line.text_list) THEN Len(get_line_string(line, texts))
    ELSE
        LET segment == get_text_segment(line, texts, line.text_list[k])
            segment_width == get_size(segment)[1]
        IN  IF x < current_width + segment_width
            THEN LET c == point_char(segment, 0, current_width, x)
                 IN  IF c < Len(segment) THEN char_ind + c ELSE char_ind + 1
            ELSE point_text(line, texts, k + 1, char_ind + Len(segment),
                            current_width + segment_width, x)

RECURSIVE prev_chars_of(_, _, _)
prev_chars_of(b, _line_num, target) ==
    IF _line_num >= Len(b.lines) \/ _line_num = target THEN 0
    ELSE Len(get_line_string(b.lines[_line_num + 1], b.texts))
             + prev_chars_of(b, _line_num + 1, target)

get_index_from_point(b, point) ==
    LET line_num == point_line(_get_lines(b), 0, 0, point[2])
    IN  IF line_num = -1 THEN Len(get_box_string(b))
        ELSE prev_chars_of(b, 0, line_num + b.line_num)
                 + point_text(_get_lines(b)[line_num + 1], b.texts, 1, 0, 0,
                              point[1])

(***************************************************************************)
(* InputBox._update_cursor_pos, with move_cursor_chars and                 *)
(* _update_cursor_index, which call it back.  The result is [ib, ret]; ret *)
(* is <<>> for None, else <<line_num, text_obj, sub_index>>.  tries bounds *)
(* the iterations of "while True" and the nested calls.                    *)
(***************************************************************************)
RECURSIVE update_cursor_loop(_, _, _, _)
RECURSIVE _update_cursor_pos(_, _, _, _)

\* InputBox.move_cursor_chars
move_cursor_chars(ib, num_chars, tries) ==
    _update_cursor_pos([ib EXCEPT !.cursor_index = @ + num_chars], TRUE,
                       num_chars < 0, tries).ib

\* InputBox._update_cursor_index
_update_cursor_index(ib, tries) ==
    IF ib.cursor_rect = <<>> THEN ib
    ELSE _update_cursor_pos(
             [ib EXCEPT !.cursor_index =
                 get_index_from_point(ib.b, SubSeq(ib.cursor_rect, 1, 2))],
             TRUE, FALSE, tries).ib

\* _update_cursor_pos, lines 1499-1508: index not yet wrapped: scroll, wrap and
\* try again; a pass that changes nothing repeats for ever
update_cursor_wrapped(ib, w, allow_scroll, move_left, tries) ==
    IF w.diverged \/ w.b = ib.b
    THEN [ib |-> [ib EXCEPT !.b = w.b, !.diverged = TRUE], ret |-> <<>>]
    ELSE IF w.b.raised
    THEN [ib |-> [ib EXCEPT !.b = w.b], ret |-> <<>>]
    ELSE update_cursor_loop([ib EXCEPT !.b = w.b], allow_scroll, move_left,
                            tries - 1)

\* _update_cursor_pos: cursor outside screen and allow_scroll
update_cursor_outside(ib, s, final_line_num) ==
    LET above == ib.b.lines[IF s.line_num = 0 THEN Len(ib.b.lines)
                            ELSE s.line_num]
        y_pos == IF s.line_num > final_line_num THEN s.y_pos - above.height
                 ELSE 0
    IN  [ib EXCEPT !.b = scroll_lines(ib.b, s.line_num - ib.b.line_num),
                   !.cursor_rect = <<s.x_pos, y_pos, DEFAULT_CURSOR_WIDTH,
                                     s.height>>]

\* _update_cursor_pos: the pass after the scan of the lines ended in s
update_cursor_scanned(ib, s, final_line_num, allow_scroll, move_left, tries) ==
    IF s.raised
    THEN [ib |-> [ib EXCEPT !.b.raised = TRUE], ret |-> <<>>]
    ELSE IF s.after_dash
    THEN [ib |-> move_cursor_chars(ib, IF move_left THEN -1 ELSE 1, tries - 1),
          ret |-> <<s.line_num, s.text_obj, s.sub_index>>]
    ELSE IF ~s.found
    THEN update_cursor_wrapped(ib,
             _wrap_new_lines(scroll_lines(ib.b, 1), FALSE, FALSE),
             allow_scroll, move_left, tries)
    ELSE IF s.line_num < ib.b.line_num \/ s.line_num > final_line_num
    THEN IF allow_scroll
         THEN [ib |-> update_cursor_outside(ib, s, final_line_num),
               ret |-> <<s.line_num, s.text_obj, s.sub_index>>]
         ELSE [ib |-> _update_cursor_index(ib, tries - 1),
               ret |-> <<s.line_num, s.text_obj, s.sub_index>>]
    ELSE [ib |-> [ib EXCEPT !.cursor_rect =
                     <<s.x_pos, s.y_pos, DEFAULT_CURSOR_WIDTH, s.height>>],
          ret |-> <<s.line_num, s.text_obj, s.sub_index>>]

update_cursor_loop(ib, allow_scroll, move_left, tries) ==
    IF ib.b.lines = <<>>
    THEN [ib |-> [ib EXCEPT !.cursor_index = 0, !.cursor_rect = <<>>],
          ret |-> <<>>]
    ELSE IF tries = 0
    THEN [ib |-> [ib EXCEPT !.diverged = TRUE], ret |-> <<>>]
    ELSE update_cursor_scanned(ib, cursor_scan(ib.b, ib.cursor_index),
                               _get_final_line_num(ib.b), allow_scroll,
                               move_left, tries)

_update_cursor_pos(ib, allow_scroll, move_left, tries) ==
    update_cursor_loop(_bind_cursor(ib), allow_scroll, move_left, tries)


\* InputBox._draw_cursor, up to the drawing
_draw_cursor_placed(ib, tries) ==
    IF ib.b.raised \/ ib.diverged THEN ib ELSE _update_cursor_index(ib, tries)

_draw_cursor(ib, tries) ==
    _draw_cursor_placed(_update_cursor_pos(ib, FALSE, FALSE, tries).ib, tries)

\* InputBox.render of the active box: TextBox.render, then the cursor
InputBox_rendered(ib, w, tries) ==
    IF w.b.raised \/ w.diverged
    THEN [ib EXCEPT !.b = w.b, !.diverged = w.diverged]
    ELSE _draw_cursor([ib EXCEPT !.b = w.b], tries)

InputBox_render(ib, pos, tries) ==
    InputBox_rendered(ib, render(ib.b, pos), tries)

\* the text a key leaves of all_text, typed at index (insert_char)
typed_text(all_text, index, char) ==
    IF char = "backspace"
    THEN IF index = 0 THEN all_text
         ELSE Take(all_text, index - 1) \o Drop(all_text, index)
    ELSE IF char = "delete"
    THEN IF Len(all_text) <= index THEN all_text
         ELSE Take(all_text, index) \o Drop(all_text, index + 1)
    ELSE Take(all_text, index) \o <<char>> \o Drop(all_text, index)

\* insert_char without lines 1331-1336: the cursor stays where it was
insert_char_cursor_kept(ib, char, tries) == ib

\* InputBox.insert_char, lines 1331-1336: the cursor follows the edit
insert_char_cursor(ib, char, tries) ==
    IF ib.diverged \/ ib.b.raised \/ char = "delete" THEN ib
    ELSE IF char = "backspace" THEN move_cursor_chars(ib, -1, tries)
    ELSE move_cursor_chars(ib, 1, tries)

\* InputBox.insert_char, lines 1329-1334: the re-wrap and, for a typed character,
\* the second _update_cursor_pos
insert_char_wrapped(ib, w, char, tries) ==
    IF w.diverged \/ w.b.raised \/ char \in {"backspace", "delete"}
    THEN [ib EXCEPT !.b = w.b, !.diverged = w.diverged]
    ELSE _update_cursor_pos([ib EXCEPT !.b = w.b], TRUE, FALSE, tries).ib

\* InputBox.insert_char, lines 1327-1329: change_text, mark_wrap, _wrap_new_lines
insert_char_marked(ib, m, char, tries) ==
    IF m.raised THEN [ib EXCEPT !.b = m]
    ELSE insert_char_cursor(
             insert_char_wrapped(ib, _wrap_new_lines(m, FALSE, FALSE), char, tries),
             char, tries)

\* InputBox.insert_char, lines 1306-1328, r the result of the first
\* _update_cursor_pos: <<line_num, text_num, index_in_text>> or <<>> for None
insert_char_at(r, char, tries) ==
    IF r.ib.diverged \/ r.ib.b.raised \/ r.ret = <<>> THEN r.ib
    ELSE insert_char_marked(r.ib,
             mark_wrap(
                 [r.ib.b EXCEPT !.texts =
                     Text_change_text(r.ib.b.texts, r.ret[2],
                         typed_text(r.ib.b.texts[r.ret[2]].all_text,
                                    r.ret[3], char))],
                 r.ret[1]),
             char, tries)

\* InputBox.insert_char
insert_char(ib, char, tries) ==
    insert_char_at(_update_cursor_pos(ib, TRUE, FALSE, tries), char, tries)

\* InputBox.move_cursor_lines, lines 1599-1617: the cursor rect is shifted by a
\* line height; a missing rect raises TypeError
move_cursor_lines_shift(ib, dy) ==
    IF ib.cursor_rect = <<>> THEN [ib EXCEPT !.b.raised = TRUE]
    ELSE [ib EXCEPT !.cursor_rect[2] = @ + dy]

\* InputBox.move_cursor_lines, lines 1609-1612: scroll down one line and wrap
move_cursor_lines_scroll(ib, w) ==
    [ib EXCEPT !.b = w.b, !.diverged = w.diverged]

\* InputBox.move_cursor_lines, lines 1593-1617; pos tells that the closing call
\* is _update_cursor_pos and not _update_cursor_index
move_cursor_lines_target(ib, lines, current_line) ==
    IF lines < 0
    THEN IF current_line <= ib.b.line_num
         THEN IF current_line = 0
              THEN [ib |-> [ib EXCEPT !.cursor_index = 0], pos |-> TRUE]
              ELSE [ib |-> [ib EXCEPT !.b = scroll_lines(ib.b, -1)], pos |-> FALSE]
         ELSE [ib |-> move_cursor_lines_shift(ib, 0 - ib.b.lines[current_line].height),
               pos |-> FALSE]
    ELSE IF current_line >= _get_final_line_num(ib.b)
         THEN [ib |-> move_cursor_lines_scroll(ib,
                          _wrap_new_lines(scroll_lines(ib.b, 1), FALSE, FALSE)),
               pos |-> FALSE]
         ELSE [ib |-> move_cursor_lines_shift(ib, ib.b.lines[current_line + 2].height),
               pos |-> FALSE]

\* InputBox.move_cursor_lines, lines 1598 and 1619
move_cursor_lines_moved(t, tries) ==
    IF t.ib.diverged \/ t.ib.b.raised THEN t.ib
    ELSE IF t.pos THEN _update_cursor_pos(t.ib, TRUE, FALSE, tries).ib
    ELSE _update_cursor_index(t.ib, tries)

\* InputBox.move_cursor_lines, lines 1586-1592, r the result of _update_cursor_pos;
\* unpacking None raises TypeError
move_cursor_lines_from(r, lines, tries) ==
    IF r.ib.diverged \/ r.ib.b.raised THEN r.ib
    ELSE IF r.ret = <<>> THEN [r.ib EXCEPT !.b.raised = TRUE]
    ELSE IF lines = 0 THEN r.ib
    ELSE move_cursor_lines_moved(move_cursor_lines_target(r.ib, lines, r.ret[1]), tries)

\* InputBox.move_cursor_lines
move_cursor_lines(ib, lines, tries) ==
    move_cursor_lines_from(_update_cursor_pos(ib, TRUE, FALSE, tries), lines, tries)

\* the thread of _interface_loop (interface/start.py) and the thread of the
\* application, which calls add_text, scroll_lines, change_text and the like
Threads == {"interface", "application"}

\* drag_start_time = None, drag_end_time = None
NoTime == -1

VARIABLES
    texts,                \* the Text objects handed to add_text, by id
    new_text_list,        \* _TextWrap.new_text_list (ids)
    wrapped_text_list,    \* _TextWrap.wrapped_text_list (ids)
    lines,                \* _TextWrap.lines
    line_num,             \* _TextWrap.line_num
    current_height,       \* _TextWrap.current_height
    remaining_segments,   \* _TextWrap.remaining_segments
    pos,                  \* _TextWrap.pos: <<width, height>>, <<>> for None
    was_at_bottom,        \* _TextWrap.was_at_bottom
    raised,               \* the last operation ended by an IndexError
    hung,                 \* the last operation did not return
    display,              \* size of the box rectangle on the display
    split_call,           \* a call of Text.split and its result
    fit_call,             \* a call of _Line.fit_text and its result
    cursor_index,         \* InputBox.cursor_index
    cursor_rect,          \* InputBox.cursor_rect, <<>> for None
    cursor_call,          \* the call of _update_cursor_pos that just returned
    pc,                   \* per thread: the steps left of the call it is in
    held,                 \* per thread: the locks it holds, in order of acquisition
    drag_speed,           \* _TextWrap.drag_speed, in 32nds of a line per second
    drag_start_time,      \* _TextWrap.drag_start_time, NoTime for None
    drag_end_time,        \* _TextWrap.drag_end_time, NoTime for None
    dragged_lines,        \* _TextWrap.dragged_lines
    drags_to_go,          \* _TextWrap.drags_to_go, in 1024ths of a line
    drag_start_pos,       \* _TextWrap.drag_start_pos, <<>> for None
    key_press_times,      \* InputBox.key_press_times
    key_repeats,          \* InputBox.key_repeats
    now,                  \* get_time(), in 32nds of a second
    pressed,              \* the keys pygame.key.get_pressed() reports as held
    other_box,            \* the _TextWrap of a second text box in textboxes
    rect_call             \* a call of TextBox._get_rect and its result

vars == <<texts, new_text_list, wrapped_text_list, lines, line_num,
          current_height, remaining_segments, pos, was_at_bottom, raised,
          hung, display, split_call, fit_call, cursor_index, cursor_rect, cursor_call,
          pc, held, drag_speed, drag_start_time, drag_end_time, dragged_lines,
          drags_to_go, drag_start_pos, key_press_times, key_repeats, now,
          pressed, other_box, rect_call>>

\* the drag and coast state of the box, the key repeat state of the input
\* box, the clock, the second box and the last call of _get_rect
gesture_vars ==
    <<drag_speed, drag_start_time, drag_end_time, dragged_lines, drags_to_go,
      drag_start_pos, key_press_times, key_repeats, now, pressed, other_box,
      rect_call>>

(***************************************************************************)
(* The box as a state machine.                                             *)
(***************************************************************************)
Box ==
    [texts |-> texts, new_text_list |-> new_text_list,
     wrapped_text_list |-> wrapped_text_list, lines |-> lines,
     line_num |-> line_num, current_height |-> current_height,
     remaining_segments |-> remaining_segments, pos |-> pos,
     was_at_bottom |-> was_at_bottom, raised |-> raised]

SetBox(b) ==
    /\ texts' = b.texts
    /\ new_text_list' = b.new_text_list
    /\ wrapped_text_list' = b.wrapped_text_list
    /\ lines' = b.lines
    /\ line_num' = b.line_num
    /\ current_height' = b.current_height
    /\ remaining_segments' = b.remaining_segments
    /\ pos' = b.pos
    /\ was_at_bottom' = b.was_at_bottom
    /\ raised' = b.raised

\* the characters of the texts: a letter, a split-after character
\* and a split-before character (a hyphen on a line is then synthetic)
Chars == {"a", " ", "("}

StringsUpTo(chars, n) == UNION {[1..k -> chars] : k \in 1..n}

\* the characters of the boxes that are edited, resized or hold a cursor: a
\* letter, which a forced split cuts, and a space, which is cut after
EditChars == {"a", " "}

\* the texts of the box that is edited and resized: one letter, and the
\* words of MaxTextLen characters with at most one space inside, which a
\* forced split or a split after the space cuts
EditStrings ==
    {<<"a">>} \cup
    {s \in [1..MaxTextLen -> EditChars] :
        /\ s[1] = "a" /\ s[MaxTextLen] = "a"
        /\ Cardinality({i \in 1..MaxTextLen : s[i] = " "}) <= 1}

Labels == {"None", "main"}

\* box rectangles; a viewport of one character width is the degenerate case
Displays(min_chars) ==
    {<<w * CharWidth, h * CharHeight>> :
        w \in min_chars..MaxWidthChars, h \in 1..MaxHeightLines}

NoCall == [state |-> "none"]

InitObjects ==
    /\ texts = _TextWrap.texts
    /\ new_text_list = _TextWrap.new_text_list
    /\ wrapped_text_list = _TextWrap.wrapped_text_list
    /\ lines = _TextWrap.lines
    /\ line_num = _TextWrap.line_num
    /\ current_height = _TextWrap.current_height
    /\ remaining_segments = _TextWrap.remaining_segments
    /\ pos = _TextWrap.pos
    /\ was_at_bottom = _TextWrap.was_at_bottom
    /\ raised = FALSE
    /\ hung = FALSE
    /\ cursor_index = InputBox(_TextWrap).cursor_index
    /\ cursor_rect = InputBox(_TextWrap).cursor_rect
    /\ cursor_call = NoCall
    /\ pc = [t \in Threads |-> <<>>]
    /\ held = [t \in Threads |-> <<>>]
    /\ drag_speed = 0
    /\ drag_start_time = NoTime
    /\ drag_end_time = NoTime
    /\ dragged_lines = 0
    /\ drags_to_go = 0
    /\ drag_start_pos = <<>>
    /\ key_press_times = EmptyDict
    /\ key_repeats = {}
    /\ now = 0
    /\ pressed = {}
    /\ other_box = _TextWrap
    /\ rect_call = NoCall

InitBox(min_chars) ==
    /\ InitObjects
    /\ display \in Displays(min_chars)
    /\ split_call = NoCall
    /\ fit_call = NoCall

\* the outcome of an operation that runs a wrap pass; the boxes of the model
\* hold at most MaxLines lines
SetWrapped(w) ==
    /\ Len(w.b.lines) <= MaxLines
    /\ SetBox(w.b)
    /\ hung' = w.diverged

\* text_wrap.add_text([Text(text, font, new_line=new_line, label=label)])
AddText(labels, strings, new_lines) ==
    \E text \in strings, new_line \in new_lines, label \in labels :
        /\ ~hung
        /\ Len(texts) < MaxTexts
        /\ SetBox(add_text([Box EXCEPT !.raised = FALSE], text, new_line, label))
        /\ UNCHANGED <<pc, held, gesture_vars, hung, display, split_call, fit_call, cursor_index, cursor_rect>>
        /\ cursor_call' = NoCall

\* TextBox.render: text_wrap.render(display, self.pos)
Render ==
    /\ ~hung
    /\ SetWrapped(render(Box, display))
    /\ UNCHANGED <<pc, held, gesture_vars, display, split_call, fit_call, cursor_index, cursor_rect>>
    /\ cursor_call' = NoCall

\* text_wrap.scroll_lines(n)
ScrollLines ==
    \E n \in -MaxScroll..MaxScroll :
        /\ ~hung
        /\ lines = <<>> => line_num + n <= MaxLineNum
        /\ SetBox(scroll_lines([Box EXCEPT !.raised = FALSE], n))
        /\ UNCHANGED <<pc, held, gesture_vars, hung, display, split_call, fit_call, cursor_index, cursor_rect>>
        /\ cursor_call' = NoCall

\* text_wrap._wrap_new_lines(all_, force_new_line).  The callers outside
\* render are the cursor operations of InputBox, which return early while
\* the box has no line; lines exist only after a render at the present size
WrapNewLines(alls, forces) ==
    \E all_ \in alls, force_new_line \in forces :
        /\ ~hung
        /\ pos = display
        /\ SetWrapped(_wrap_new_lines([Box EXCEPT !.raised = FALSE], all_,
                                      force_new_line))
        /\ UNCHANGED <<pc, held, gesture_vars, display, split_call, fit_call, cursor_index, cursor_rect>>
        /\ cursor_call' = NoCall

\* text_wrap.mark_wrap(start_line) for a line of the box
MarkWrap ==
    \E start_line \in 0..Len(lines) :
        /\ ~hung
        /\ SetBox(mark_wrap(Box, start_line))
        /\ UNCHANGED <<pc, held, gesture_vars, hung, display, split_call, fit_call, cursor_index, cursor_rect>>
        /\ cursor_call' = NoCall

\* text_wrap.change_text(label, string)
ChangeText(strings) ==
    \E string \in strings :
        /\ ~hung
        /\ SetBox(change_text([Box EXCEPT !.raised = FALSE], "main", string))
        /\ UNCHANGED <<pc, held, gesture_vars, hung, display, split_call, fit_call, cursor_index, cursor_rect>>
        /\ cursor_call' = NoCall

\* text_wrap.clear_all_text()
ClearAllText ==
    /\ ~hung
    /\ SetBox(clear_all_text(Box))
    /\ UNCHANGED <<pc, held, gesture_vars, hung, display, split_call, fit_call, cursor_index, cursor_rect>>
    /\ cursor_call' = NoCall

\* a VIDEORESIZE event: _resize_display marks every box for a re-wrap; the
\* next render passes the new rectangle
Resize(min_chars) ==
    \E size \in Displays(min_chars) \ {display} :
        /\ ~hung
        /\ display' = size
        /\ SetBox(mark_wrap(Box, 0))
        /\ UNCHANGED <<pc, held, gesture_vars, hung, split_call, fit_call, cursor_index, cursor_rect>>
        /\ cursor_call' = NoCall

Init == InitBox(1)

Next ==
    \/ AddText(Labels, EditStrings, {FALSE})
    \/ Render
    \/ ScrollLines
    \/ WrapNewLines({FALSE}, {FALSE})
    \/ MarkWrap
    \/ ChangeText(EditStrings)
    \/ ClearAllText
    \/ Resize(1)

Spec == Init /\ [][Next]_vars

(***************************************************************************)
(* Appending and wrapping only, in a viewport in which a character and a   *)
(* hyphen fit.                                                             *)
(***************************************************************************)
InitWrap == InitBox(2)

\* the appended texts: letters with at most one split character
WrapStrings ==
    {s \in StringsUpTo(Chars, MaxTextLen) :
        Cardinality({i \in 1..Len(s) : s[i] # "a"}) <= 1}

NextWrap ==
    \/ AddText({"None"}, WrapStrings, BOOLEAN)
    \/ Render
    \/ ScrollLines
    \/ WrapNewLines(BOOLEAN, BOOLEAN)

SpecWrap == InitWrap /\ [][NextWrap]_vars

(***************************************************************************)
(* The active input box: its render draws the cursor, a click sets the     *)
(* cursor and the arrow keys move it.                                      *)
(***************************************************************************)
IB ==
    [b |-> [Box EXCEPT !.raised = FALSE], cursor_index |-> cursor_index,
     cursor_rect |-> cursor_rect, diverged |-> FALSE]

SetIB(ib) ==
    /\ SetBox(ib.b)
    /\ cursor_index' = ib.cursor_index
    /\ cursor_rect' = ib.cursor_rect
    /\ hung' = ib.diverged

\* InputBox.render(display) of the active box
RenderInput ==
    /\ ~hung
    /\ SetIB(InputBox_render(IB, display, MaxCursorTries))
    /\ cursor_call' = NoCall
    /\ UNCHANGED <<pc, held, gesture_vars, display, split_call, fit_call>>

\* self.cursor_index = index; self._update_cursor_pos(move_left=move_left)
UpdateCursorPos(index, move_left) ==
    /\ ~hung
    /\ pos = display
    /\ SetIB(_update_cursor_pos([IB EXCEPT !.cursor_index = index], TRUE,
                                move_left, MaxCursorTries).ib)
    /\ cursor_call' = [state |-> "returned", index |-> index,
                                 move_left |-> move_left]
    /\ UNCHANGED <<pc, held, gesture_vars, display, split_call, fit_call>>

\* the points of a click: the left edges of the character cells of the box
\* and its right edge, at the tops of its rows
Points ==
    {<<x * CharWidth, y * CharHeight>> :
        x \in 0..MaxWidthChars, y \in 0..(MaxHeightLines - 1)}

\* handle_event, MOUSEBUTTONUP in place: the cursor goes to the point
Click ==
    \E point \in Points :
        /\ point[1] <= display[1]
        /\ point[2] < display[2]
        /\ UpdateCursorPos(get_index_from_point(Box, point), FALSE)

\* move_cursor_direction(1) and (-1): the arrow keys left and right
MoveCursorChars ==
    \E num_chars \in {-1, 1} :
        /\ cursor_rect # <<>>
        /\ lines # <<>>
        /\ UpdateCursorPos(cursor_index + num_chars, num_chars < 0)

InitCursor == InitBox(2)


\* the texts typed into the input box: they begin with a letter and hold at
\* most one space
CursorStrings ==
    {s \in StringsUpTo(EditChars, MaxTextLen) :
        /\ s[1] = "a"
        /\ Cardinality({i \in 1..Len(s) : s[i] = " "}) <= 1}

NextCursor ==
    \/ AddText({"None"}, CursorStrings, BOOLEAN)
    \/ RenderInput
    \/ Click
    \/ MoveCursorChars

SpecCursor == InitCursor /\ [][NextCursor]_vars

(***************************************************************************)
(* Properties.                                                             *)
(***************************************************************************)
\* the text appended to the box: the all_text of the Text objects in the
\* order of their add_text calls
Appended == all_text_of([i \in 1..Len(texts) |-> i], texts, 1)

\* a string without its hyphens
NotHyphen(c) == c # "-"

StripHyphens(s) == SelectSeq(s, NotHyphen)

\* the strings of the committed lines, in line order
LineStrings == lines_string(lines, texts, 1)

CaretIndex == get_index_from_point(Box, SubSeq(cursor_rect, 1, 2))

\* _update_cursor_pos was called for a valid index and returned a caret
\* rectangle
Mapped ==
    /\ cursor_call # NoCall
    /\ cursor_call.index \in 0..Len(get_box_string(Box))
    /\ ~hung /\ ~raised
    /\ cursor_rect # <<>>

\* index is the start of a committed line whose predecessor ends with the
\* hyphen of a forced split (no text of the box has a hyphen of its own)
AfterHyphen(index) ==
    \E n \in 2..Len(lines) :
        /\ index = Len(lines_string(SubSeq(lines, 1, n - 1), texts, 1))
        /\ get_line_string(lines[n], texts) # <<>>
        /\ LET prev == get_line_string(lines[n - 1], texts)
           IN  prev # <<>> /\ prev[Len(prev)] = "-"

\* C5, allowing for the one move the code makes on purpose: the caret
\* rectangle of a valid index maps back to the index the cursor is left at,
\* which is the index asked for unless that is the start of a line after a
\* synthetic hyphen: from there the cursor goes one character on, or one
\* back when it was moving left
CursorRoundTrip ==
    Mapped =>
        /\ CaretIndex = cursor_index
        /\ cursor_index =
               IF AfterHyphen(cursor_call.index)
               THEN cursor_call.index + (IF cursor_call.move_left THEN -1 ELSE 1)
               ELSE cursor_call.index

\* the sum of the measured widths of the segments placed on a line
RECURSIVE MeasuredWidth(_, _)
MeasuredWidth(line, i) ==
    IF i > Len(line.text_list) THEN 0
    ELSE get_size(get_text_segment(line, texts, line.text_list[i]))[1]
             + MeasuredWidth(line, i + 1)

\* C2: the segments of every committed line measure at most the width of
\* the viewport, and the line's width field is that measure
WidthInvariant ==
    \A l \in 1..Len(lines) :
        /\ MeasuredWidth(lines[l], 1) <= display[1]
        /\ lines[l].width <= display[1]

\* C2 witness: committed lines that fill the widest viewport, in a box that
\* was scrolled and whose later text is pending again
WidthWitness ==
    /\ Len(lines) >= 2
    /\ display[1] = MaxWidthChars * CharWidth
    /\ \A l \in 1..Len(lines) : MeasuredWidth(lines[l], 1) = display[1]
    /\ line_num > 0
    /\ new_text_list # <<>>

\* C3 as stated: scroll_lines leaves line_num within
\* [0, max(0, number of committed lines - 1)], also on a box without lines
ScrollClamp ==
    [][ScrollLines =>
          line_num' \in 0..Max(0, Len(lines') - 1)]_vars

\* C4: with nothing pending a wrap pass, forced or not, whether or not told
\* to wrap all, returns 0 and leaves the box as it is
WrapIdle ==
    (new_text_list = <<>> /\ pos = display) =>
        \A all_ \in BOOLEAN, force_new_line \in BOOLEAN :
            LET w == _wrap_new_lines(Box, all_, force_new_line)
            IN  /\ w.lines_added = 0
                /\ w.b.lines = lines
                /\ w.b.new_text_list = new_text_list
                /\ w.b.remaining_segments = remaining_segments
                /\ w.b.current_height = current_height

\* C4 witness: a box with committed lines, nothing pending, and room left
\* in the viewport
WrapIdleWitness ==
    /\ new_text_list = <<>>
    /\ pos = display
    /\ Len(lines) >= 2
    /\ current_height < pos[2]

\* C6 as stated: in every state get_box_string is the appended text, up to
\* synthetic hyphens
BoxString == StripHyphens(get_box_string(Box)) = Appended

\* the height of the committed lines from line k (from 0) on
HeightFrom(ls, k) == sum_heights(SubSeq(ls, k + 1, Len(ls)), 1)

SplitChars == {"a", "N", " ", "-", "(", "_"}

\* the segments of the two examples in the docstring of split
DocSegments ==
    { <<"a", "a", "a", "-", "b", "b", "b", "b", "b">>,
      <<"a", "a", "a", "(", "b", "b", "b", "b", "b", ")">> }

SplitSegments == StringsUpTo(SplitChars, MaxSegLen) \cup DocSegments

\* widths in whole characters, and the 50 pixels of the docstring of split
SplitWidths == {k * CharWidth : k \in 0..MaxSegLen} \cup {50}

InitSplit ==
    /\ InitObjects
    /\ display = <<CharWidth, CharHeight>>
    /\ fit_call = NoCall
    /\ \E seg \in SplitSegments, box_width \in SplitWidths \ {0} :
         \E remaining_width \in {w \in SplitWidths : w <= box_width} :
            split_call = [state |-> "called", text_segment |-> seg,
                          remaining_width |-> remaining_width,
                          box_width |-> box_width]

SplitCall ==
    /\ split_call.state = "called"
    /\ split_call' =
           [state |-> "returned",
            text_segment |-> split_call.text_segment,
            remaining_width |-> split_call.remaining_width,
            box_width |-> split_call.box_width,
            returned |-> split(split_call.text_segment,
                               split_call.remaining_width,
                               split_call.box_width)]
    /\ UNCHANGED <<pc, held, gesture_vars, texts, new_text_list, wrapped_text_list, lines, line_num,
                   current_height, remaining_segments, pos, was_at_bottom,
                   raised, hung, display, fit_call, cursor_index, cursor_rect,
                   cursor_call>>

NextSplit == SplitCall

SpecSplit == InitSplit /\ [][NextSplit]_vars

\* the cut points of a segment: [char, split_ind], the cut leaving
\* split_ind characters in the prefix
CutPoints(seg, remaining_width, box_width) ==
    { [char |-> seg[i], split_ind |-> i] :
        i \in {j \in 1..Len(seg) : seg[j] \in SPLIT_CHARS_AFTER_SET} }
    \cup
    { [char |-> seg[i], split_ind |-> i - 1] :
        i \in {j \in 1..Len(seg) :
                  /\ seg[j] \in Range(SPLIT_CHARS_BEFORE) \ {"N"}
                  /\ (j > 1 \/ remaining_width < box_width)} }
    \cup
    (IF remaining_width < box_width
     THEN {[char |-> "N", split_ind |-> 0]} ELSE {})

\* the cut points whose prefix fits in remaining_width
FittingCutPoints(seg, remaining_width, box_width) ==
    { c \in CutPoints(seg, remaining_width, box_width) :
        get_size(Take(seg, c.split_ind))[1] <= remaining_width }

\* the place of a split character in the precedence table
TableRank(char) ==
    CHOOSE i \in 1..Len(SPLIT_CHARS_ALL) : SPLIT_CHARS_ALL[i] = char

\* c is the cut the precedence table picks among cs
PickedBy(c, cs) ==
    /\ c \in cs
    /\ \A d \in cs :
          \/ TableRank(c.char) < TableRank(d.char)
          \/ c.char = d.char /\ c.split_ind >= d.split_ind

\* C8: when a cut point fits, split cuts at the fitting cut point whose
\* character comes first in SPLIT_CHARS_ALL, at its latest fitting
\* occurrence; at a width of 4 characters 'aaa-bbbbb' gives
\* ('aaa-', 'bbbbb') and 'aaa(bbbbb)' gives ('aaa', '(bbbbb)')
SplitPrecedence ==
    split_call.state = "returned" =>
        LET seg == split_call.text_segment
            cs == FittingCutPoints(seg, split_call.remaining_width,
                                   split_call.box_width)
            r == split_call.returned
        IN  /\ cs # {} =>
                \E c \in cs :
                    /\ PickedBy(c, cs)
                    /\ r.best_segment = Take(seg, c.split_ind)
                    /\ r.other_segment = Drop(seg, c.split_ind)
            /\ (seg \in DocSegments /\ split_call.remaining_width = 50
                    /\ split_call.box_width = 50) =>
                   IF seg[4] = "-"
                   THEN /\ r.best_segment = <<"a", "a", "a", "-">>
                        /\ r.other_segment = <<"b", "b", "b", "b", "b">>
                   ELSE /\ r.best_segment = <<"a", "a", "a">>
                        /\ r.other_segment = <<"(", "b", "b", "b", "b", "b", ")">>

\* C8 witness: split returned a cut that is not the fitting cut nearest the
\* width limit
SplitPrecedenceWitness ==
    /\ split_call.state = "returned"
    /\ \E c \in FittingCutPoints(split_call.text_segment,
                                 split_call.remaining_width,
                                 split_call.box_width) :
          c.split_ind > Len(split_call.returned.best_segment)
    /\ split_call.returned.best_segment # <<>>

\* the split was forced: no cut point fitted
Forced(call) ==
    FittingCutPoints(call.text_segment, call.remaining_width,
                     call.box_width) = {}

\* a returned prefix without the hyphen a forced split put at its end
Unhyphened(call) ==
    LET prefix == call.returned.best_segment
    IN  IF Forced(call) /\ prefix # <<>> /\ prefix[Len(prefix)] = "-"
        THEN Take(prefix, Len(prefix) - 1) ELSE prefix

\* C9 as stated: for every segment and remaining_width <= box_width the
\* prefix fits in remaining_width, the Text's text_segment is the prefix
\* afterwards, and prefix (less a forced split's hyphen) and remainder make
\* up the segment
SplitContract ==
    split_call.state = "returned" =>
        /\ get_size(split_call.returned.best_segment)[1]
               <= split_call.remaining_width
        /\ split_call.returned.text_segment = split_call.returned.best_segment
        /\ Unhyphened(split_call) \o split_call.returned.other_segment
               = split_call.text_segment

\* C10 as stated: a forced split of a segment that does not fit returns
\* the longest prefix that fits with a hyphen appended, hyphen included,
\* and the rest of the segment as the remainder
ForcedLongest ==
    (/\ split_call.state = "returned"
     /\ Forced(split_call)
     /\ get_size(split_call.text_segment)[1] > split_call.remaining_width) =>
        LET seg == split_call.text_segment
            fits == {k \in 1..Len(seg) :
                        get_size(Take(seg, k) \o <<"-">>)[1]
                            <= split_call.remaining_width}
            longest == IF fits = {} THEN 0
                       ELSE CHOOSE k \in fits : \A j \in fits : j <= k
        IN  /\ split_call.returned.best_segment =
                   IF longest = 0 THEN <<>> ELSE Take(seg, longest) \o <<"-">>
            /\ split_call.returned.other_segment = Drop(seg, longest)

(***************************************************************************)
(* _Line.fit_text on its own: every initial state is a call on a new       *)
(* _Line(); FitText makes the call, Refit calls fit_text again on the line *)
(* it filled, with the queue it left, as a later wrap pass does when       *)
(* _next_line hands out the last line again.                               *)
(***************************************************************************)
FitStrings == {<<"-">>, <<"a", " ", "a">>}

\* box widths of one and two characters, and the 200 of the docstring
FitWidths == {CharWidth, 2 * CharWidth, 200}

\* the Text objects of a call: at most one of them has new_line set
FitTexts ==
    UNION { { ts \in [1..n -> {Text(s, nl, "None") :
                                  s \in FitStrings, nl \in BOOLEAN}] :
                \A i, j \in 1..n :
                    (ts[i].new_line /\ ts[j].new_line) => i = j } :
            n \in 1..MaxQueue }

InitFit ==
    /\ InitObjects
    /\ display = <<CharWidth, CharHeight>>
    /\ split_call = NoCall
    /\ \E ts \in FitTexts, k \in 1..MaxQueue, box_width \in FitWidths :
         \E queue \in [1..k -> 1..Len(ts)] :
            fit_call = [state |-> "called", box_width |-> box_width,
                        line |-> _Line, box_text_list |-> queue,
                        texts |-> ts]

\* the record of a call: what went in (before) and what came out
FitReturn(call, state) ==
    LET r == fit_text(call.line, call.box_text_list, call.box_width,
                      call.texts)
    IN  [state |-> state, box_width |-> call.box_width,
         before |-> [line |-> call.line,
                     box_text_list |-> call.box_text_list,
                     texts |-> call.texts],
         line |-> r.line, box_text_list |-> r.box_text_list,
         texts |-> r.texts, added_text |-> r.added_text,
         following_text_segment |-> r.following_text_segment]

FitText ==
    /\ fit_call.state = "called"
    /\ fit_call' = FitReturn(fit_call, "returned")
    /\ UNCHANGED <<pc, held, gesture_vars, texts, new_text_list, wrapped_text_list, lines, line_num,
                   current_height, remaining_segments, pos, was_at_bottom,
                   raised, hung, display, split_call, cursor_index,
                   cursor_rect, cursor_call>>

Refit ==
    /\ fit_call.state = "returned"
    /\ fit_call' = FitReturn(fit_call, "refitted")
    /\ UNCHANGED <<pc, held, gesture_vars, texts, new_text_list, wrapped_text_list, lines, line_num,
                   current_height, remaining_segments, pos, was_at_bottom,
                   raised, hung, display, split_call, cursor_index,
                   cursor_rect, cursor_call>>

NextFit == FitText \/ Refit

SpecFit == InitFit /\ [][NextFit]_vars

\* a fit_text call has returned
FitReturned == fit_call.state \in {"returned", "refitted"}

\* the width and the greatest height of the segments of the queued texts
RECURSIVE QueueWidth(_, _)
QueueWidth(queue, ts) ==
    IF queue = <<>> THEN 0
    ELSE get_size(ts[Head(queue)].text_segment)[1] + QueueWidth(Tail(queue), ts)

RECURSIVE QueueHeight(_, _)
QueueHeight(queue, ts) ==
    IF queue = <<>> THEN 0
    ELSE Max(get_size(ts[Head(queue)].text_segment)[2],
             QueueHeight(Tail(queue), ts))

\* C11 as stated: when not even one character of the first queued text
\* fits on an empty line, fit_text reports the text's whole segment as the
\* carry-over and leaves the text at the front of the queue
DeferredWhole ==
    (/\ FitReturned
     /\ fit_call.before.line.text_list = <<>>
     /\ fit_call.before.box_text_list # <<>>
     /\ get_size(<<"a", "-">>)[1] > fit_call.box_width
     /\ Len(fit_call.before.texts[Head(fit_call.before.box_text_list)]
                .text_segment) > 1) =>
        LET text_id == Head(fit_call.before.box_text_list)
        IN  /\ fit_call.following_text_segment =
                   <<text_id, fit_call.before.texts[text_id].text_segment>>
            /\ fit_call.box_text_list = fit_call.before.box_text_list

\* C12: a queue of distinct texts without new_line that are not on the
\* line and fit together in the remaining width is appended whole, in
\* order: the width grows by the sum of their widths, the height is the
\* greatest height, the queue is left empty; four texts of 12x24 in a
\* width of 200 give width 48 and height 24
FitAll ==
    LET before == fit_call.before
        queue == before.box_text_list
    IN  (/\ FitReturned
         /\ ~before.line.new_line
         /\ \A i, j \in 1..Len(queue) : queue[i] = queue[j] => i = j
         /\ \A i \in 1..Len(queue) :
               /\ ~before.texts[queue[i]].new_line
               /\ ~In(queue[i], before.line.text_list)
         /\ before.line.width + QueueWidth(queue, before.texts)
                <= fit_call.box_width) =>
            /\ fit_call.line.text_list = before.line.text_list \o queue
            /\ fit_call.added_text = queue
            /\ fit_call.line.width =
                   before.line.width + QueueWidth(queue, before.texts)
            /\ fit_call.line.height =
                   Max(before.line.height, QueueHeight(queue, before.texts))
            /\ fit_call.box_text_list = <<>>
            /\ (/\ Len(queue) = 4
                /\ before.line.text_list = <<>>
                /\ fit_call.box_width = 200
                /\ \A i \in 1..4 : before.texts[queue[i]].text_segment = <<"-">>)
                   => (fit_call.line.width = 48 /\ fit_call.line.height = 24)

\* C12 witness: four distinct one-character texts were fitted on a new
\* line of width 200
FitAllWitness ==
    /\ fit_call.state = "returned"
    /\ fit_call.box_width = 200
    /\ Len(fit_call.line.text_list) = 4
    /\ \A i, j \in 1..4 : fit_call.line.text_list[i] = fit_call.line.text_list[j]
                             => i = j
    /\ fit_call.line.width = 48

\* C13: a popped text that is already on the line stops fit_text: the line
\* keeps its texts, width and height, the text is back at the front of the
\* queue and (id, its segment) is the carry-over; a new line given the same
\* text four times holds it once, with width 12 and height 24
FitStopsAtPlaced ==
    LET before == fit_call.before
        queue == before.box_text_list
    IN  /\ (/\ FitReturned
            /\ ~before.line.new_line
            /\ queue # <<>>
            /\ In(Head(queue), before.line.text_list)) =>
               /\ fit_call.line = before.line
               /\ fit_call.added_text = <<>>
               /\ fit_call.box_text_list = queue
               /\ fit_call.texts = before.texts
               /\ fit_call.following_text_segment =
                      <<Head(queue), before.texts[Head(queue)].text_segment>>
        /\ (/\ fit_call.state = "returned"
            /\ Len(queue) = 4
            /\ \A i \in 1..4 : queue[i] = queue[1]
            /\ before.texts[queue[1]].text_segment = <<"-">>
            /\ ~before.texts[queue[1]].new_line) =>
               /\ fit_call.line.text_list = <<queue[1]>>
               /\ fit_call.line.width = 12
               /\ fit_call.line.height = 24
               /\ fit_call.box_text_list = Tail(queue)
               /\ fit_call.following_text_segment = <<queue[1], <<"-">> >>

\* C13 witness: fit_text was called again on a line that holds the text at
\* the front of the queue, between texts still queued behind it
FitStopsWitness ==
    /\ fit_call.state = "refitted"
    /\ ~fit_call.before.line.new_line
    /\ Len(fit_call.before.box_text_list) >= 2
    /\ In(Head(fit_call.before.box_text_list), fit_call.before.line.text_list)
    /\ fit_call.before.box_text_list[2] # Head(fit_call.before.box_text_list)

\* the last segment of text t lies on committed line l (from 1)
FinalOn(t, l) ==
    /\ In(t, lines[l].text_list)
    /\ \A m \in (l + 1)..Len(lines) : ~In(t, lines[m].text_list)
    /\ ~In(t, new_text_list)

\* C14: on every committed line a text with new_line whose last segment is
\* on the line is the last text of the line, whatever fit_text calls and
\* wrap passes came after it was placed
NewLineLast ==
    \A l \in 1..Len(lines) :
        \A i \in 1..Len(lines[l].text_list) :
            LET t == lines[l].text_list[i]
            IN  (texts[t].new_line /\ FinalOn(t, l)) =>
                    i = Len(lines[l].text_list)

\* C14 witness: a line closed by a text with new_line, with the text added
\* after it on the next line
NewLineLastWitness ==
    /\ Len(lines) >= 2
    /\ lines[1].text_list # <<>>
    /\ LET t == lines[1].text_list[Len(lines[1].text_list)]
       IN  /\ texts[t].new_line
           /\ FinalOn(t, 1)
           /\ get_size(texts[t].all_text)[1] < display[1]
    /\ new_text_list = <<>>

\* the line numbers mark_wrap is called with: change_text and the input box
\* pass the number of a committed line, a resize passes 0
MarkLines == 0..Len(lines)

\* the number of committed lines mark_wrap(k) retains
Retained(k) == IF k >= 2 THEN Min(k - 1, Len(lines)) ELSE 0

\* C16: mark_wrap(k) with k >= 2 leaves the lines before k-1 as they are and
\* removes the others, brings line_num into the retained lines and makes
\* current_height the height of the retained lines from line_num;
\* mark_wrap(0) and mark_wrap(1) remove every line
MarkWrapFrame ==
    \A k \in MarkLines :
        LET m == mark_wrap(Box, k)
        IN  /\ m.lines = SubSeq(lines, 1, Retained(k))
            /\ m.line_num = Max(0, Min(Retained(k) - 1, line_num))
            /\ m.current_height = HeightFrom(m.lines, m.line_num)

\* C16 witness: a scrolled box of three lines or more, of which
\* mark_wrap(3) retains two and leaves line_num where it is
MarkWrapFrameWitness ==
    /\ Len(lines) >= 3
    /\ line_num = 1
    /\ Len(mark_wrap(Box, 3).lines) = 2
    /\ mark_wrap(Box, 3).current_height = CharHeight

\* the ids of the texts on the lines ls
TextsOn(ls) == UNION {Range(ls[l].text_list) : l \in 1..Len(ls)}

\* a set of ids as a list in the order the texts were added
RECURSIVE InAddedOrder(_)
InAddedOrder(ids) ==
    IF ids = {} THEN <<>>
    ELSE LET first == CHOOSE i \in ids : \A j \in ids : i <= j
         IN  <<first>> \o InAddedOrder(ids \ {first})

\* a list without the entries that are in ids
RECURSIVE Without(_, _)
Without(s, ids) ==
    IF s = <<>> THEN <<>>
    ELSE (IF Head(s) \in ids THEN <<>> ELSE <<Head(s)>>) \o Without(Tail(s), ids)

\* C17 as stated: after mark_wrap(k) the pending queue is the texts of the
\* truncated lines, once each in the order they were added, then the texts
\* that were pending; wrapped_text_list keeps only texts that are on
\* retained lines and not on truncated ones
MarkWrapQueue ==
    \A k \in MarkLines :
        LET m == mark_wrap(Box, k)
            truncated == TextsOn(SubSeq(lines, Retained(k) + 1, Len(lines)))
        IN  (~m.raised /\ Range(wrapped_text_list) \subseteq TextsOn(lines)) =>
                /\ m.new_text_list =
                       InAddedOrder(truncated) \o Without(new_text_list, truncated)
                /\ Range(m.wrapped_text_list) \subseteq
                       TextsOn(m.lines) \ truncated

\* C19: clear_all_text leaves no lines, no pending texts, no wrapped texts,
\* no carry-over, current_height 0 and line_num 0, from any state
ClearEmpties ==
    LET c == clear_all_text(Box)
    IN  /\ c.lines = <<>>
        /\ c.new_text_list = <<>>
        /\ c.wrapped_text_list = <<>>
        /\ c.remaining_segments = EmptyDict
        /\ c.current_height = 0
        /\ c.line_num = 0

\* C19 witness: a box that was given text and then cleared
ClearEmptiesWitness ==
    /\ texts # <<>>
    /\ lines = <<>> /\ new_text_list = <<>> /\ wrapped_text_list = <<>>
    /\ remaining_segments = EmptyDict
    /\ current_height = 0 /\ line_num = 0

\* how many characters of text t the lines ls display: the characters of
\* its segments on them, less the hyphens of forced splits
RECURSIVE Displayed(_, _, _)
Displayed(t, ls, l) ==
    IF l > Len(ls) THEN 0
    ELSE (IF In(t, ls[l].text_list)
          THEN Len(StripHyphens(get_text_segment(ls[l], texts, t)))
          ELSE 0) + Displayed(t, ls, l + 1)

\* mark_wrap(k) truncates between two lines that share a text
SharedAt(k) ==
    /\ Retained(k) >= 1
    /\ Retained(k) < Len(lines)
    /\ lines[Retained(k) + 1].text_list # <<>>
    /\ In(lines[Retained(k) + 1].text_list[1], lines[Retained(k)].text_list)

\* C18: when mark_wrap(k) truncates between two lines that share
\* a text, the carry-over it records for the text is the part of all_text
\* that the retained lines do not display
MarkWrapCarry ==
    \A k \in MarkLines :
        SharedAt(k) =>
            LET m == mark_wrap(Box, k)
                t == lines[Retained(k) + 1].text_list[1]
            IN  ~m.raised =>
                    /\ t \in DOMAIN m.remaining_segments
                    /\ m.remaining_segments[t] =
                           Drop(texts[t].all_text, Displayed(t, m.lines, 1))

\* the strings of the lines of box b, line by line
BoxLines(b) == [l \in 1..Len(b.lines) |-> get_line_string(b.lines[l], b.texts)]

\* wrapping to completion
WrapAll(b) == _wrap_new_lines(b, TRUE, FALSE)

\* the box is wrapped: nothing is pending in the viewport it was given
Wrapped ==
    /\ new_text_list = <<>>
    /\ lines # <<>>
    /\ pos = display
    /\ ~raised /\ ~hung

\* on a wrapped box mark_wrap(k) and a wrap to completion give the line
\* strings that mark_wrap(0) and a wrap to completion give
MarkedSame ==
    Wrapped =>
        \A k \in MarkLines :
            LET incremental == WrapAll(mark_wrap(Box, k))
                full == WrapAll(mark_wrap(Box, 0))
            IN  (~incremental.diverged /\ ~full.diverged
                     /\ ~incremental.b.raised /\ ~full.b.raised) =>
                    BoxLines(incremental.b) = BoxLines(full.b)

(***************************************************************************)
(* Boxes to re-wrap: texts long enough to span three lines and more,       *)
(* wrapped by render and by the wrap passes of the input box.  mark_wrap   *)
(* and change_text are applied to every box reached.                       *)
(***************************************************************************)
MarkStrings ==
    { <<"a">>, <<"a", " ", "a">>, <<"a", "a", "a", "a", "a">>,
      <<"a", "a", " ", "a", "a">> }

InitMark == InitBox(2)

NextMark ==
    \/ AddText(Labels, MarkStrings, {FALSE})
    \/ Render
    \/ ScrollLines
    \/ WrapNewLines(BOOLEAN, {FALSE})

SpecMark == InitMark /\ [][NextMark]_vars

\* the box with the text of every Text labelled label replaced by string,
\* and everything to be wrapped again
EditedAndMarked(b, label, string) ==
    mark_wrap([b EXCEPT !.texts =
                  change_all(b.texts, get_labeled_text(b, label), string, 1)],
              0)

\* change_text, which marks from the line of the edit, and a wrap to
\* completion give the line strings that the same edit with mark_wrap(0)
\* and a wrap to completion give
EditedSame ==
    Wrapped =>
        \A label \in Labels, string \in EditStrings :
            LET incremental == WrapAll(change_text(Box, label, string))
                full == WrapAll(EditedAndMarked(Box, label, string))
            IN  (get_labeled_text(Box, label) # <<>>
                     /\ ~incremental.diverged /\ ~full.diverged
                     /\ ~incremental.b.raised /\ ~full.b.raised) =>
                    BoxLines(incremental.b) = BoxLines(full.b)

\* C15: for a wrapped box, re-wrapping from the line of an edit gives the
\* line strings that re-wrapping everything gives, at the same width: for
\* every line number k handed to mark_wrap and for every edit made by
\* change_text
IncrementalRewrap == MarkedSame /\ EditedSame

\* C15 witness: a wrapped box of three lines or more with a text split
\* between lines 2 and 3, which mark_wrap(3) and a wrap bring back as it was
IncrementalRewrapWitness ==
    /\ Wrapped
    /\ Len(lines) >= 3
    /\ Len(texts) = MaxTexts
    /\ SharedAt(3)
    /\ BoxLines(WrapAll(mark_wrap(Box, 3)).b) = BoxLines(Box)

\* C18 witness: mark_wrap(k) cuts a text that the retained lines display on
\* two lines or more, with a forced split's hyphen, and records a carry-over
MarkWrapCarryWitness ==
    /\ Wrapped
    /\ \E k \in MarkLines :
          /\ SharedAt(k)
          /\ Retained(k) >= 2
          /\ LET t == lines[Retained(k) + 1].text_list[1]
             IN  /\ In(t, lines[Retained(k) - 1].text_list)
                 /\ get_text_segment(lines[Retained(k)], texts, t)
                        # StripHyphens(get_text_segment(lines[Retained(k)], texts, t))
                 /\ mark_wrap(Box, k).remaining_segments[t] # <<>>

(***************************************************************************)
(* Scrolling to reveal text: texts are added and rendered, and the user    *)
(* keeps scrolling down by one line and rendering.  ScrollRender is taken  *)
(* again and again as long as it changes the box.                          *)
(***************************************************************************)
InitScroll == InitBox(1)

\* scroll_lines(1), then render
ScrollRender ==
    /\ ~hung
    /\ lines = <<>> => line_num + 1 <= MaxLineNum
    /\ SetWrapped(render(scroll_lines(Box, 1), display))
    /\ UNCHANGED <<pc, held, gesture_vars, display, split_call, fit_call, cursor_index, cursor_rect>>
    /\ cursor_call' = NoCall

NextScroll ==
    \/ AddText({"None"}, EditStrings, {FALSE})
    \/ Render
    \/ ScrollRender

SpecScroll == InitScroll /\ [][NextScroll]_vars /\ WF_vars(ScrollRender)

\* the box after scroll_lines(1) and render
ScrollStep(b) == render(scroll_lines(b, 1), display).b

\* C20 as stated, in the form a finite run refutes: in any viewport of one
\* line or more, while fragments are pending after a render, scrolling down
\* a line and rendering changes the box; a step that changes nothing leaves
\* them pending however often it is repeated
ScrollReveals ==
    (new_text_list # <<>> /\ lines # <<>> /\ pos = display /\ ~hung /\ ~raised) =>
        ScrollStep(Box) # Box

(***************************************************************************)
(* A text box that is appended to, rendered and scrolled while it holds    *)
(* lines: the calls a log view receives between two frames.                *)
(***************************************************************************)
InitView == InitBox(2)

\* text_wrap.scroll_lines(n) of a box that has lines
ScrollView == lines # <<>> /\ ScrollLines

NextView ==
    \/ AddText({"None"}, MarkStrings, BOOLEAN)
    \/ Render
    \/ ScrollView

SpecView == InitView /\ [][NextView]_vars

\* a render that returned, of a box whose scroll offset is on a line
RenderReturned ==
    /\ Render
    /\ ~hung' /\ ~raised'
    /\ line_num <= Max(0, Len(lines) - 1)

\* was_at_bottom was set by the previous render, and the pass committed lines
BottomAndAdded == was_at_bottom /\ Len(lines') > Len(lines)

\* C21: a render moves the scroll offset forward only if the previous render
\* ended with the last line in view and the wrap pass committed new lines,
\* and then it moves it (a box that had lines) and the last committed line
\* is in view afterwards (at_bottom holds again); every other render leaves
\* the scroll offset as it was
RenderAdvance ==
    [][RenderReturned =>
          /\ line_num' > line_num => BottomAndAdded
          /\ (BottomAndAdded /\ lines # <<>>) => line_num' > line_num
          /\ BottomAndAdded => was_at_bottom'
          /\ ~BottomAndAdded => line_num' = line_num]_vars

\* a wrap pass on the box as render and the cursor operations run it:
\* self.pos is set, all_ is was_at_bottom (render) or False (InputBox)
WrapPass(all_) ==
    _wrap_new_lines([Box EXCEPT !.pos = display, !.raised = FALSE], all_, FALSE)

WrapPassReturned(all_) ==
    ~hung /\ ~WrapPass(all_).diverged /\ ~WrapPass(all_).b.raised

\* C22: the value a wrap pass returns is the number of lines it committed,
\* the number of lines after the pass less the number before it; a pass
\* that adds no line returns 0
WrapCount ==
    \A all_ \in BOOLEAN :
        WrapPassReturned(all_) =>
            WrapPass(all_).lines_added = Len(WrapPass(all_).b.lines) - Len(lines)

\* the pass runs its loop (text_needs_wrapped() and (all_ or within_height()))
\* on a box that has lines: _next_line takes the last line off to refill it
Reopens(all_) ==
    /\ lines # <<>>
    /\ new_text_list # <<>>
    /\ all_ \/ current_height < display[2]

\* C22, amended: the value a wrap pass returns is the number of lines the
\* pass appended, the reopened last line among them: the number of lines
\* after the pass less the number before it, and one more when the pass
\* reopened the last line; a pass that does not run returns 0
WrapCountReopened ==
    \A all_ \in BOOLEAN :
        WrapPassReturned(all_) =>
            WrapPass(all_).lines_added =
                Len(WrapPass(all_).b.lines) - Len(lines)
                    + (IF Reopens(all_) THEN 1 ELSE 0)

\* a pass that reopens the last line and commits a further line
WrapCountWitness ==
    /\ Reopens(was_at_bottom)
    /\ WrapPassReturned(was_at_bottom)
    /\ Len(WrapPass(was_at_bottom).b.lines) > Len(lines)

(***************************************************************************)
(* Typing into the active input box: texts are added, the box is rendered, *)
(* a click sets the cursor, the arrow keys move it and the other keys edit *)
(* the text at the cursor.                                                 *)
(***************************************************************************)
\* the texts the box is given: the empty text of the typing test and a
\* letter; the keys make the other texts of up to MaxTyped characters
TypedTexts == {<<>>, <<"a">>}

\* what _check_char returns for the keys pressed
Keys == {"a", " ", "backspace", "delete"}

\* the all_text of every Text of the box, in the order they were added
LogicalText == all_text_of([k \in 1..Len(texts) |-> k], texts, 1)

\* handle_event, KEYDOWN of a key that is no arrow key: insert_char
InsertChar ==
    \E char \in Keys :
        /\ ~hung
        /\ pos = display
        /\ char \in {"a", " "} => Len(LogicalText) < MaxTyped
        /\ SetIB(insert_char(IB, char, MaxCursorTries))
        /\ cursor_call' = [state |-> "typed", char |-> char]
        /\ UNCHANGED <<pc, held, gesture_vars, display, split_call, fit_call>>

\* move_cursor_direction("u") and ("d"): the arrow keys up and down
MoveCursorLines ==
    \E n \in {-1, 1} :
        /\ ~hung
        /\ pos = display
        /\ cursor_rect # <<>>
        /\ lines # <<>>
        /\ SetIB(move_cursor_lines(IB, n, MaxCursorTries))
        /\ cursor_call' = [state |-> "moved", lines |-> n]
        /\ UNCHANGED <<pc, held, gesture_vars, display, split_call, fit_call>>

InitEdit == InitBox(2)

NextEdit ==
    \/ AddText({"None"}, TypedTexts, {FALSE})
    \/ RenderInput
    \/ Click
    \/ MoveCursorChars
    \/ MoveCursorLines
    \/ InsertChar

SpecEdit == InitEdit /\ [][NextEdit]_vars

\* insert_char returned for a printable character typed into a box with
\* wrapped lines, the cursor index within the shown string
TypedChar ==
    /\ InsertChar
    /\ cursor_call'.char \in {"a", " "}
    /\ lines # <<>>
    /\ cursor_index <= Len(get_box_string(Box))
    /\ ~hung' /\ ~raised'

\* the number of texts whose all_text differs before and after the step
ChangedTexts == {k \in 1..Len(texts) : texts'[k].all_text # texts[k].all_text}

RECURSIVE unhyphened_before(_, _)
unhyphened_before(string, i) ==
    IF i <= 0 \/ string = <<>> THEN 0
    ELSE (IF Head(string) = "-" THEN 0 ELSE 1) + unhyphened_before(Tail(string), i - 1)

LogicalIndex(b, i) == unhyphened_before(get_box_string(b), i)

Edited(char) ==
    /\ InsertChar
    /\ cursor_call'.char = char
    /\ lines # <<>>
    /\ cursor_index <= Len(get_box_string(Box))
    /\ ~hung' /\ ~raised'

\* s without its character number i (from 1)
Without1(s, i) == Take(s, i - 1) \o Drop(s, i)

\* C24 as stated: backspace at cursor index i > 0 removes the character before
\* the cursor and moves the cursor to i - 1; delete with a character behind the
\* cursor removes that character and keeps the cursor index; backspace at
\* index 0 and delete at the end change neither text nor cursor.
BackspaceDelete ==
    [][/\ Edited("backspace") =>
            IF LogicalIndex(Box, cursor_index) > 0
            THEN /\ LogicalText' = Without1(LogicalText, LogicalIndex(Box, cursor_index))
                 /\ cursor_index' = cursor_index - 1
            ELSE /\ LogicalText' = LogicalText
                 /\ cursor_index' = cursor_index
       /\ Edited("delete") =>
            IF LogicalIndex(Box, cursor_index) < Len(LogicalText)
            THEN /\ LogicalText' = Without1(LogicalText, LogicalIndex(Box, cursor_index) + 1)
                 /\ cursor_index' = cursor_index
            ELSE /\ LogicalText' = LogicalText
                 /\ cursor_index' = cursor_index]_vars

\* a cursor operation of the input box returned
CursorOperation ==
    /\ RenderInput \/ Click \/ MoveCursorChars \/ MoveCursorLines \/ InsertChar
    /\ ~hung'

\* C25: after every cursor operation (click, move_cursor_chars,
\* move_cursor_lines, insert, backspace, delete, drawing the cursor) the cursor
\* index lies in [0, length of the box string], and the operation does not
\* raise.
CursorInRange ==
    [][CursorOperation =>
          /\ ~raised'
          /\ cursor_index' \in 0..Len(get_box_string(Box'))]_vars

\* C26: resolving the cursor index to a position (_update_cursor_pos, called
\* for a click or an arrow key on a box that has been rendered) always
\* returns: the scroll-and-wrap retry loop does not repeat without end, for
\* every viewport height.
CursorResolves ==
    [][(Click \/ MoveCursorChars) /\ lines # <<>> => ~hung']_vars

\* the line the cursor index lies on
CursorLine(b, i) == cursor_scan(b, i).line_num

\* move_cursor_lines(n) returned, called by an arrow key in a box that is
\* wrapped to the end and whose cursor is where _draw_cursor puts it
MovedLines(n) ==
    /\ MoveCursorLines
    /\ cursor_call'.lines = n
    /\ new_text_list = <<>>
    /\ _draw_cursor(IB, MaxCursorTries) = IB
    /\ ~hung' /\ ~raised'

\* C27: move_cursor_lines(n), n = 1 or -1, moves the cursor to the adjacent
\* line at the same horizontal offset, clamped to the end of that line;
\* the scroll offset changes by at most one line and only when the target
\* line is outside the window; afterwards the line of the cursor is within
\* the window; moving up on line 0 puts the cursor at index 0.
MoveLinesAdjacent ==
    [][\A n \in {-1, 1} : MovedLines(n) =>
          /\ CursorLine(Box, cursor_index) + n \in 0..(Len(lines) - 1) =>
                /\ CursorLine(Box', cursor_index') = CursorLine(Box, cursor_index) + n
                /\ cursor_rect'[1] =
                       Min(cursor_rect[1],
                           lines[CursorLine(Box, cursor_index) + n + 1].width)
          /\ line_num' - line_num \in {-1, 0, 1}
          /\ line_num' # line_num =>
                CursorLine(Box, cursor_index) + n
                    \notin line_num.._get_final_line_num(Box)
          /\ CursorLine(Box', cursor_index') \in line_num'.._get_final_line_num(Box')
          /\ (n = -1 /\ CursorLine(Box, cursor_index) = 0) => cursor_index' = 0]_vars

(***************************************************************************)
(* A box whose labelled text is changed while it is shown, as the change   *)
(* test does: texts are added, with the label "main" or without a label,   *)
(* the box is rendered and scrolled, and change_text("main", string)       *)
(* replaces the labelled texts.                                            *)
(***************************************************************************)
InitChange == InitBox(2)

\* y.text_wrap.change_text("main", text)
ChangeLabelled ==
    \E string \in MarkStrings :
        /\ ~hung
        /\ SetBox(change_text([Box EXCEPT !.raised = FALSE], "main", string))
        /\ cursor_call' = [state |-> "changed", string |-> string]
        /\ UNCHANGED <<pc, held, gesture_vars, hung, display, split_call, fit_call, cursor_index, cursor_rect>>

NextChange ==
    \/ AddText(Labels, MarkStrings, {FALSE})
    \/ Render
    \/ ScrollLines
    \/ ChangeLabelled

SpecChange == InitChange /\ [][NextChange]_vars

\* the texts of the box that carry the label "main"
Labelled == {k \in 1..Len(texts) : texts[k].label = "main"}

\* the number, from 0, of the first line that contains the first labelled
\* text; 0 if no line contains it
FirstChangedLine ==
    LET first == CHOOSE k \in Labelled : \A j \in Labelled : k <= j
        on == {l \in 1..Len(lines) : Line_contains(lines[l], first)}
    IN  IF on = {} THEN 0 ELSE (CHOOSE l \in on : \A m \in on : l <= m) - 1

\* the texts with the all_text and the segment of every labelled one set
ChangedTo(string) ==
    [k \in 1..Len(texts) |->
        IF k \in Labelled
        THEN [texts[k] EXCEPT !.all_text = string, !.text_segment = string]
        ELSE texts[k]]

\* C28: change_text(label, s) on a box with a text of that label sets the
\* all_text and the segment of every text with the label, committed or
\* pending, to s and leaves the all_text of every other text as it was; it
\* marks the wrap from the first line that contains the first of these texts
\* (from line 0 if no line does): the lines from there on are removed; and
\* a render that then wraps everything shows the appended texts in their
\* order, with s in the place of the old text.
ChangeTextReplaces ==
    [][/\ (ChangeLabelled /\ Labelled # {}) =>
            /\ ~raised'
            /\ \A k \in 1..Len(texts) :
                  IF k \in Labelled
                  THEN /\ texts'[k].all_text = cursor_call'.string
                       /\ texts'[k].text_segment = cursor_call'.string
                  ELSE texts'[k].all_text = texts[k].all_text
            /\ Box' = mark_wrap([Box EXCEPT !.raised = FALSE,
                                            !.texts = ChangedTo(cursor_call'.string)],
                                FirstChangedLine)
            /\ Len(lines') <= FirstChangedLine
            /\ lines' = Take(lines, Len(lines'))
       /\ (Render /\ ~hung' /\ ~raised' /\ new_text_list' = <<>>) =>
            StripHyphens(lines_string(lines', texts', 1)) = Appended']_vars

\* C28 witness: change_text replaced a labelled text that was on the third
\* line or below, behind a text without a label; lines were retained and
\* both texts are pending
ChangeTextWitness ==
    /\ cursor_call = [state |-> "changed", string |-> <<"a", " ", "a">>]
    /\ ~raised
    /\ Len(texts) = 2
    /\ Labelled = {2}
    /\ texts[2].all_text = <<"a", " ", "a">>
    /\ lines # <<>>
    /\ new_text_list = <<1, 2>>

(***************************************************************************)
(* The locks.  Every call is the sequence of its lock operations and of    *)
(* the mutations it makes of a box, in program order; "with lock:" is an   *)
(* acquire, the body, and a release.  threading.Lock is not reentrant: an  *)
(* acquire waits until no thread holds the lock, the caller included.      *)
(* The interface thread runs render and check_events in its loop, the      *)
(* application thread calls the box from outside.                          *)
(***************************************************************************)
NumBoxes == 2           \* text boxes in textboxes; box 1 is the active InputBox

TEXTBOX_LOCK == 0

\* textboxes[box].text_wrap.text_lock
text_lock(box) == box

acquire(lock) == [op |-> "acquire", lock |-> lock]

release(lock) == [op |-> "release", lock |-> lock]

\* a mutation of the pending queue, the lines, line_num, current_height or
\* the cursor of a box (state "box"), or of its drag state (state "drag")
mutate(box, state, by) == [op |-> "mutate", box |-> box, state |-> state, by |-> by]

\* with lock: body
with(lock, body) == <<acquire(lock)>> \o body \o <<release(lock)>>

\* _rewrap: for textbox in textboxes: with text_lock: mark_wrap()
RECURSIVE _rewrap_locks(_)
_rewrap_locks(box) ==
    IF box > NumBoxes THEN <<>>
    ELSE with(text_lock(box), <<mutate(box, "box", "mark_wrap")>>)
             \o _rewrap_locks(box + 1)

\* _TextWrap.clear_all_text with the _rewrap inside the with block
clear_all_text_nested(box) ==
    with(text_lock(box),
         <<mutate(box, "box", "clear_all_text")>> \o _rewrap_locks(1))

\* _TextWrap.clear_all_text
clear_all_text_locks(box) ==
    with(text_lock(box), <<mutate(box, "box", "clear_all_text")>>)
        \o _rewrap_locks(1)

\* InputBox.insert_char and move_cursor_direction
insert_char_locks(box) ==
    with(text_lock(box), <<mutate(box, "box", "insert_char")>>)

\* TextBox.handle_event: scrolling by the wheel or by a drag
handle_event_locks(box) ==
    with(text_lock(box), <<mutate(box, "box", "scroll_lines")>>)

\* TextBox.render, and InputBox.render of the active box, from box on
RECURSIVE render_boxes(_)
render_boxes(box) ==
    IF box > NumBoxes THEN <<>>
    ELSE with(text_lock(box), <<mutate(box, "box", "render")>>)
             \o (IF box = 1
                 THEN with(text_lock(box), <<mutate(box, "box", "_draw_cursor")>>)
                 ELSE <<>>)
             \o render_boxes(box + 1)

\* _coast_scrolls: coast_scroll of every box, which scrolls the coasting ones
RECURSIVE _coast_scrolls(_, _)
_coast_scrolls(box, coasting) ==
    IF box > NumBoxes THEN <<>>
    ELSE (IF box \in coasting
          THEN <<mutate(box, "box", "scroll_lines")>> ELSE <<>>)
             \o _coast_scrolls(box + 1, coasting)

\* the module's render: the coasting boxes scroll, a held key repeats in
\* the active box, and a dirty display is drawn under TEXTBOX_LOCK
render_locks(coasting, held_key, dirty) ==
    _coast_scrolls(1, coasting)
        \o (IF held_key THEN insert_char_locks(1) ELSE <<>>)
        \o (IF dirty THEN with(TEXTBOX_LOCK, render_boxes(1)) ELSE <<>>)

\* what the application thread calls
ApplicationCalls ==
    UNION {{ with(text_lock(box), <<mutate(box, "box", "add_text")>>),
             <<mutate(box, "box", "scroll_lines")>>,
             with(text_lock(box), <<mutate(box, "box", "change_text")>>),
             clear_all_text_locks(box) } : box \in 1..NumBoxes}
        \cup { _rewrap_locks(1),                  \* Text.set_font
               with(TEXTBOX_LOCK, <<>>) }         \* TextBox.__init__

\* what the interface thread calls: render, and check_events with one event
InterfaceCalls ==
    { render_locks(coasting, held_key, dirty) :
          coasting \in SUBSET (1..NumBoxes), held_key \in BOOLEAN,
          dirty \in BOOLEAN }
        \cup UNION {{ handle_event_locks(box),         \* wheel, drag
                      with(text_lock(box), <<>>)       \* pointer up
                          \o <<mutate(box, "drag", "end_drag")>> }
                    : box \in 1..NumBoxes}
        \cup { with(text_lock(1), <<>>)                \* KEYDOWN
                   \o <<mutate(1, "drag", "_stop_coast")>>
                   \o insert_char_locks(1),
               with(text_lock(1), <<>>)                \* click in place
                   \o with(text_lock(1), <<mutate(1, "box", "_update_cursor_pos")>>)
                   \o <<mutate(1, "drag", "end_drag")>>,
               _rewrap_locks(1) }                      \* VIDEORESIZE

Calls(t) == IF t = "interface" THEN InterfaceCalls ELSE ApplicationCalls

box_vars ==
    <<texts, new_text_list, wrapped_text_list, lines, line_num, current_height,
      remaining_segments, pos, was_at_bottom, raised, hung, display, split_call,
      fit_call, cursor_index, cursor_rect, cursor_call>>

InitLock ==
    /\ InitObjects
    /\ display = <<CharWidth, CharHeight>>
    /\ split_call = NoCall
    /\ fit_call = NoCall

\* thread t enters a call
Call(t) ==
    /\ pc[t] = <<>>
    /\ \E steps \in Calls(t) : pc' = [pc EXCEPT ![t] = steps]
    /\ UNCHANGED <<held, box_vars, gesture_vars>>

\* lock.acquire(): waits while any thread holds the lock
Acquire(t) ==
    /\ pc[t] # <<>>
    /\ Head(pc[t]).op = "acquire"
    /\ \A u \in Threads : ~In(Head(pc[t]).lock, held[u])
    /\ held' = [held EXCEPT ![t] = Append(@, Head(pc[t]).lock)]
    /\ pc' = [pc EXCEPT ![t] = Tail(@)]
    /\ UNCHANGED <<box_vars, gesture_vars>>

\* lock.release() at the end of the with block
Release(t) ==
    /\ pc[t] # <<>>
    /\ Head(pc[t]).op = "release"
    /\ held' = [held EXCEPT ![t] =
                  SelectSeq(@, LAMBDA lock : lock # Head(pc[t]).lock)]
    /\ pc' = [pc EXCEPT ![t] = Tail(@)]
    /\ UNCHANGED <<box_vars, gesture_vars>>

\* the thread mutates the box
Mutate(t) ==
    /\ pc[t] # <<>>
    /\ Head(pc[t]).op = "mutate"
    /\ pc' = [pc EXCEPT ![t] = Tail(@)]
    /\ UNCHANGED <<held, box_vars, gesture_vars>>

NextLock == \E t \in Threads : Call(t) \/ Acquire(t) \/ Release(t) \/ Mutate(t)

SpecLock == InitLock /\ [][NextLock]_vars

\* C29: every mutation of the pending queue, the lines, line_num,
\* current_height or the cursor of a box is made by a thread that holds the
\* text_lock of that box.
MutationsLocked ==
    [][\A t \in Threads :
          (Mutate(t) /\ Head(pc[t]).state = "box") =>
              In(text_lock(Head(pc[t]).box), held[t])]_vars

\* thread t waits for a lock
Waiting(t) ==
    /\ pc[t] # <<>>
    /\ Head(pc[t]).op = "acquire"
    /\ \E u \in Threads : In(Head(pc[t]).lock, held[u])

\* C30: no thread acquires a text_lock, or TEXTBOX_LOCK, that it holds; a
\* thread that holds TEXTBOX_LOCK and a text_lock took TEXTBOX_LOCK first;
\* and the threads never all wait for a lock.
LockDiscipline ==
    /\ \A t \in Threads :
          (pc[t] # <<>> /\ Head(pc[t]).op = "acquire") =>
              ~In(Head(pc[t]).lock, held[t])
    /\ \A t \in Threads : \A i, j \in 1..Len(held[t]) :
          (i < j /\ held[t][j] = TEXTBOX_LOCK) => held[t][i] = TEXTBOX_LOCK
    /\ \E t \in Threads : ~Waiting(t)

\* C30 witness: the interface thread renders box 1 under TEXTBOX_LOCK and
\* the text_lock of the box while the application thread waits for that
\* text_lock in clear_all_text
LockDisciplineWitness ==
    /\ held["interface"] = <<TEXTBOX_LOCK, text_lock(1)>>
    /\ pc["application"] = clear_all_text_locks(1)
    /\ Waiting("application")

(***************************************************************************)
(* A box in a degenerate viewport: narrower than a glyph or as wide as one *)
(* or two, lower than a line or as high as one or two.                     *)
(***************************************************************************)
TinyDisplays ==
    {<<w, h>> : w \in {CharWidth \div 2, CharWidth, 2 * CharWidth},
                h \in {CharHeight \div 2, CharHeight}}

\* a letter, two words, and a text that a split before "(" cuts
TinyStrings == {<<"a">>, <<"a", " ", "a">>, <<"a", "(", "a">>}

InitTiny ==
    /\ InitObjects
    /\ display \in TinyDisplays
    /\ split_call = NoCall
    /\ fit_call = NoCall

NextTiny ==
    \/ AddText({"None"}, TinyStrings, BOOLEAN)
    \/ Render
    \/ ScrollLines
    \/ WrapNewLines(BOOLEAN, {FALSE})
    \/ MarkWrap

SpecTiny == InitTiny /\ [][NextTiny]_vars

\* the characters of the texts in a queue, an empty text counted as one
RECURSIVE PendingChars(_, _, _)
PendingChars(text_list, ts, i) ==
    IF i > Len(text_list) THEN 0
    ELSE Max(1, Len(ts[text_list[i]].all_text)) + PendingChars(text_list, ts, i + 1)

\* the wrap passes the box can run now: that of render, and _wrap_new_lines
\* with and without all_ once render has set pos
WrapPasses ==
    {render([Box EXCEPT !.raised = FALSE], display)} \cup
    (IF pos = display
     THEN {_wrap_new_lines([Box EXCEPT !.raised = FALSE], all_, FALSE) :
               all_ \in BOOLEAN}
     ELSE {})

\* C36: every wrap pass returns, whatever the pending queue, the viewport
\* (narrower than a glyph, lower than a line) and the carry-over state are,
\* and every line it commits beyond the reused last line takes a fragment
\* or a character off the queue: it adds no more lines than the queue held
\* characters and leaves the queue no longer
WrapTerminates ==
    ~hung =>
        \A w \in WrapPasses :
            /\ ~w.diverged
            /\ Len(w.b.lines) <= Len(lines) + PendingChars(new_text_list, texts, 1)
            /\ Len(w.b.new_text_list) <= Len(new_text_list)

\* C36 witness: in a viewport narrower than a glyph and lower than a line
\* that was rendered before, the pass with all_ commits two lines and
\* empties a queue of two texts
WrapTerminatesWitness ==
    /\ display = <<CharWidth \div 2, CharHeight \div 2>>
    /\ pos = display
    /\ Len(new_text_list) = 2
    /\ ~hung /\ ~raised
    /\ LET w == _wrap_new_lines(Box, TRUE, FALSE)
       IN  ~w.diverged /\ w.lines_added >= 2 /\ w.b.new_text_list = <<>>

\* C37: after every operation that returned, current_height is the sum of
\* the heights of the committed lines from line_num to the end
HeightTally ==
    (~hung /\ ~raised) => current_height = HeightFrom(lines, line_num)

\* the active input box after TextBox.render, as _draw_cursor finds it
Rendered == [IB EXCEPT !.b = render(IB.b, display).b]

\* InputBox._draw_cursor: self._update_cursor_pos(False)
CursorPlaced == _update_cursor_pos(Rendered, FALSE, FALSE, MaxCursorTries).ib

\* C38: the call _update_cursor_pos(False) that draws the cursor at every
\* render of the active input box leaves the scroll offset as it is
CursorKeepsScroll ==
    (/\ ~hung
     /\ ~render(IB.b, display).diverged
     /\ ~Rendered.b.raised
     /\ ~CursorPlaced.diverged
     /\ ~CursorPlaced.b.raised) =>
        CursorPlaced.b.line_num = Rendered.b.line_num

(***************************************************************************)
(* Two text boxes in textboxes, as in the brute test: the box of the       *)
(* variables and other_box.  _rewrap() goes over every box in textboxes.   *)
(***************************************************************************)
InitBoxes == InitBox(2)

\* other.text_wrap.add_text([Text(text, font)])
OtherAddText ==
    \E text \in MarkStrings :
        /\ Len(other_box.texts) < MaxTexts
        /\ other_box' = add_text(other_box, text, FALSE, "None")
        /\ UNCHANGED <<box_vars, pc, held, drag_speed, drag_start_time,
                       drag_end_time, dragged_lines, drags_to_go, drag_start_pos,
                       key_press_times, key_repeats, now, pressed,
                   rect_call>>

\* other.render(display); both boxes have rectangles of the same size
OtherRender ==
    /\ ~render(other_box, display).diverged
    /\ Len(render(other_box, display).b.lines) <= MaxLines
    /\ other_box' = render(other_box, display).b
    /\ UNCHANGED <<box_vars, pc, held, drag_speed, drag_start_time,
                   drag_end_time, dragged_lines, drags_to_go, drag_start_pos,
                   key_press_times, key_repeats, now, pressed,
                   rect_call>>

\* other.text_wrap.scroll_lines(1) of a box that has lines
OtherScroll ==
    /\ other_box.lines # <<>>
    /\ other_box' = scroll_lines(other_box, 1)
    /\ UNCHANGED <<box_vars, pc, held, drag_speed, drag_start_time,
                   drag_end_time, dragged_lines, drags_to_go, drag_start_pos,
                   key_press_times, key_repeats, now, pressed,
                   rect_call>>

\* _rewrap(): mark_wrap() of every box in textboxes
_rewrap ==
    /\ SetBox(mark_wrap(Box, 0))
    /\ other_box' = mark_wrap(other_box, 0)

\* text_wrap.clear_all_text() of the first box, with its _rewrap()
ClearAllTextBoxes ==
    /\ ~hung
    /\ SetBox(clear_all_text(Box))
    /\ other_box' = mark_wrap(other_box, 0)
    /\ cursor_call' = NoCall
    /\ UNCHANGED <<pc, held, hung, display, split_call, fit_call, cursor_index,
                   cursor_rect, drag_speed, drag_start_time, drag_end_time,
                   dragged_lines, drags_to_go, drag_start_pos, key_press_times,
                   key_repeats, now, pressed,
                   rect_call>>

\* Text.set_font(font) of a Text made for the first box, to a font in which
\* its width differs: _rewrap()
SetFont ==
    /\ ~hung
    /\ _rewrap
    /\ cursor_call' = NoCall
    /\ UNCHANGED <<pc, held, hung, display, split_call, fit_call, cursor_index,
                   cursor_rect, drag_speed, drag_start_time, drag_end_time,
                   dragged_lines, drags_to_go, drag_start_pos, key_press_times,
                   key_repeats, now, pressed,
                   rect_call>>

NextBoxes ==
    \/ AddText({"None"}, {<<"a">>}, {FALSE})
    \/ Render
    \/ OtherAddText
    \/ OtherRender
    \/ OtherScroll
    \/ ClearAllTextBoxes
    \/ SetFont

SpecBoxes == InitBoxes /\ [][NextBoxes]_vars

\* C39: clear_all_text of one box, and set_font of a Text of one box, leave
\* the committed lines, the pending queue, the carry-over map and the
\* scroll offset of every other box as they are
OthersKept ==
    [][(ClearAllTextBoxes \/ SetFont) =>
          /\ other_box'.lines = other_box.lines
          /\ other_box'.new_text_list = other_box.new_text_list
          /\ other_box'.remaining_segments = other_box.remaining_segments
          /\ other_box'.line_num = other_box.line_num]_vars

(***************************************************************************)
(* Scrolling by the pointer: the wheel, a drag with the left button and    *)
(* the coast that follows a drag.  get_time() is counted in 32nds of a     *)
(* second, drag_speed in 32nds of a line per second and drags_to_go in     *)
(* 1024ths of a line; on the times of the model the float arithmetic of    *)
(* the source is exact.                                                    *)
(***************************************************************************)
SCROLL_AMOUNT == 1
DRAG_DECELERATION == 35    \* lines per second, per second
DRAG_FACTOR == 1
DRAG_DEADZONE == 20        \* lines per second

TimeUnit == 32             \* get_time() values in a second
SpeedUnit == TimeUnit      \* drag_speed values in a line per second
LineUnit == TimeUnit * SpeedUnit    \* drags_to_go values in a line

Abs(x) == IF x >= 0 THEN x ELSE -x

\* int(x) of a float x of lines: truncation towards zero
int(x) == IF x >= 0 THEN x \div LineUnit ELSE -((-x) \div LineUnit)

\* x % n of Python for a float x of lines and an int n # 0: the result has
\* the sign of n
float_mod(x, n) ==
    IF n > 0 THEN x % (n * LineUnit) ELSE -((-x) % ((-n) * LineUnit))

\* the _TextWrap of the box with its drag and coast fields
TextWrap ==
    [b |-> [Box EXCEPT !.raised = FALSE], drag_speed |-> drag_speed,
     drag_start_time |-> drag_start_time, drag_end_time |-> drag_end_time,
     dragged_lines |-> dragged_lines, drags_to_go |-> drags_to_go,
     drag_start_pos |-> drag_start_pos]

SetTextWrap(t) ==
    /\ SetBox(t.b)
    /\ drag_speed' = t.drag_speed
    /\ drag_start_time' = t.drag_start_time
    /\ drag_end_time' = t.drag_end_time
    /\ dragged_lines' = t.dragged_lines
    /\ drags_to_go' = t.drags_to_go
    /\ drag_start_pos' = t.drag_start_pos

\* a _stop_coast that leaves the box coasting
_stop_coast_kept(t) == t

\* _TextWrap._stop_coast
_stop_coast(t) ==
    [t EXCEPT !.drag_speed = 0, !.drag_end_time = NoTime,
              !.dragged_lines = 0, !.drags_to_go = 0]

\* _TextWrap.coast_scroll takes its first branch: the box coasts
coasting(t) ==
    /\ t.drag_speed # 0
    /\ (Abs(t.drag_speed) > DRAG_DEADZONE * SpeedUnit \/ t.drags_to_go # 0)

\* a coast_scroll that never slows the box down
coast_scroll_even(t, current_time) ==
    IF coasting(t)
    THEN LET to_go == t.drags_to_go
                          + t.drag_speed * (current_time - t.drag_end_time)
             t1 == [t EXCEPT !.drags_to_go = to_go,
                             !.drag_end_time = current_time]
         IN  IF Abs(to_go) > LineUnit
             THEN [t1 EXCEPT !.b = scroll_lines(t.b, int(to_go)),
                             !.drags_to_go = float_mod(to_go, int(to_go))]
             ELSE t1
    ELSE [t EXCEPT !.drags_to_go = 0]

\* _TextWrap.coast_scroll, get_time() returning current_time
coast_scroll(t, current_time) ==
    IF coasting(t)
    THEN LET time_diff == current_time - t.drag_end_time
             to_go == t.drags_to_go + t.drag_speed * time_diff
             speed == IF t.drag_speed < 0
                      THEN Min(0, t.drag_speed + DRAG_DECELERATION * time_diff)
                      ELSE Max(0, t.drag_speed - DRAG_DECELERATION * time_diff)
             t1 == [t EXCEPT !.drags_to_go = to_go,
                             !.drag_end_time = current_time,
                             !.drag_speed = speed]
         IN  IF Abs(to_go) > LineUnit
             THEN [t1 EXCEPT !.b = scroll_lines(t.b, int(to_go)),
                             !.drags_to_go = float_mod(to_go, int(to_go))]
             ELSE t1
    ELSE [t EXCEPT !.drags_to_go = 0]

\* _TextWrap.end_drag, get_time() returning current_time
end_drag(t, current_time) ==
    IF t.drag_start_time # NoTime
    THEN LET time_diff == current_time - t.drag_start_time
         IN  [t EXCEPT !.drag_speed =
                           IF time_diff # 0
                           THEN ((t.dragged_lines * LineUnit) \div time_diff)
                                    * DRAG_FACTOR
                           ELSE @,
                       !.drag_end_time = current_time,
                       !.dragged_lines = 0]
    ELSE t

\* a scroll_drag that scrolls however little the pointer has moved
scroll_drag_eager(t, original_pos, current_pos) ==
    LET y_dist == current_pos[2] - original_pos[2]
        line_amount == IF y_dist > 0 THEN -1 ELSE 1
    IN  IF t.b.lines = <<>> \/ y_dist = 0 \/ (y_dist > 0 /\ t.b.line_num = 0)
        THEN [t |-> t, ret |-> FALSE]
        ELSE [t |-> [t EXCEPT !.dragged_lines = @ + line_amount,
                              !.b = scroll_lines(t.b, line_amount)],
              ret |-> TRUE]

\* _TextWrap.scroll_drag: [t, ret]; lines[line_num] raises an IndexError
\* when line_num is past the last line
scroll_drag(t, original_pos, current_pos) ==
    LET y_dist == current_pos[2] - original_pos[2]
        dragged(next_line) ==
            IF Abs(y_dist) >= next_line.height
            THEN LET line_amount == IF y_dist > 0 THEN -1 ELSE 1
                 IN  [t |-> [t EXCEPT !.dragged_lines = @ + line_amount,
                                      !.b = scroll_lines(t.b, line_amount)],
                      ret |-> TRUE]
            ELSE [t |-> t, ret |-> FALSE]
    IN  IF t.b.lines = <<>> THEN [t |-> t, ret |-> FALSE]
        ELSE IF y_dist > 0 /\ t.b.line_num > 0
        THEN IF t.b.line_num - 1 >= Len(t.b.lines)
             THEN [t |-> [t EXCEPT !.b.raised = TRUE], ret |-> FALSE]
             ELSE dragged(t.b.lines[t.b.line_num])
        ELSE IF y_dist < 0
        THEN IF t.b.line_num >= Len(t.b.lines)
             THEN [t |-> [t EXCEPT !.b.raised = TRUE], ret |-> FALSE]
             ELSE dragged(t.b.lines[t.b.line_num + 1])
        ELSE [t |-> t, ret |-> FALSE]

\* the box of the model is the only box of textboxes and the active one;
\* its rectangle lies at the origin of the display
\* TextBox.within_box
within_box(point) ==
    /\ 0 < point[1] /\ point[1] < display[1]
    /\ 0 < point[2] /\ point[2] < display[2]

\* the positions of the pointer: at the top, in the middle and at the
\* bottom of the box, and one outside of it
DragPoints ==
    {<<CharWidth \div 2, y>> : y \in {1, CharHeight + 1, 2 * CharHeight - 1}}
        \cup {<<0, 0>>}

\* activate_box: reset_key_repeat() of every input box
activate_box ==
    /\ key_press_times' = EmptyDict
    /\ key_repeats' = {}

\* check_events, MOUSEBUTTONDOWN with button 1 at point
PointerDown ==
    \E point \in DragPoints :
        /\ ~hung
        /\ pos = display
        /\ activate_box
        /\ IF within_box(point)
           THEN SetTextWrap([_stop_coast(TextWrap) EXCEPT
                                !.drag_start_time = now,
                                !.drag_start_pos = point])
           ELSE SetTextWrap(TextWrap)
        /\ cursor_call' = NoCall
        /\ UNCHANGED <<pc, held, hung, display, split_call, fit_call,
                       cursor_index, cursor_rect, now, pressed, other_box,
                       rect_call>>

\* check_events, MOUSEBUTTONDOWN with button 4 or 5 in the box: the wheel
Wheel ==
    \E button \in {4, 5} :
        /\ ~hung
        /\ pos = display
        /\ lines = <<>> => line_num + SCROLL_AMOUNT <= MaxLineNum
        /\ SetTextWrap([_stop_coast(TextWrap) EXCEPT
                           !.b = scroll_lines(@, IF button = 4
                                                 THEN -SCROLL_AMOUNT
                                                 ELSE SCROLL_AMOUNT)])
        /\ cursor_call' = NoCall
        /\ UNCHANGED <<pc, held, hung, display, split_call, fit_call,
                       cursor_index, cursor_rect, key_press_times, key_repeats,
                       now, pressed, other_box, rect_call>>

\* check_events, MOUSEMOTION to point
PointerMoveTo(point) ==
    /\ ~hung
    /\ pos = display
    /\ LET moved == scroll_drag(TextWrap, drag_start_pos, point)
       IN  IF within_box(point) /\ drag_start_time # NoTime
           THEN SetTextWrap(IF moved.ret
                            THEN [moved.t EXCEPT !.drag_start_pos = point]
                            ELSE moved.t)
           ELSE SetTextWrap(TextWrap)
    /\ cursor_call' = NoCall
    /\ UNCHANGED <<pc, held, hung, display, split_call, fit_call,
                   cursor_index, cursor_rect, key_press_times, key_repeats,
                   now, pressed, other_box, rect_call>>

PointerMove == \E point \in DragPoints : PointerMoveTo(point)

\* InputBox.handle_event, MOUSEBUTTONUP with button 1 at point: [ib, clicked]
pointer_up(ib, start_pos, point) ==
    IF start_pos = point
    THEN [ib |-> _update_cursor_pos(
                     [ib EXCEPT !.cursor_index = get_index_from_point(ib.b, point)],
                     TRUE, FALSE, MaxCursorTries).ib,
          clicked |-> TRUE]
    ELSE [ib |-> ib, clicked |-> FALSE]

\* the quotient dragged_lines / time_diff of end_drag is a speed of the model;
\* a pointer-up comes a second before the clock of the model ends, at the latest
OnGrid(time_diff) ==
    time_diff # 0 => (dragged_lines * LineUnit) % time_diff = 0

\* check_events, MOUSEBUTTONUP with button 1 at point, the box a TextBox:
\* its handle_event changes nothing, then end_drag() and the start of the
\* drag is forgotten
PointerUp ==
    \E point \in DragPoints :
        /\ ~hung
        /\ pos = display
        /\ drag_start_time # NoTime => OnGrid(now - drag_start_time)
        /\ now + TimeUnit <= MaxTime
        /\ SetTextWrap([end_drag(TextWrap, now) EXCEPT
                           !.drag_start_pos = <<>>,
                           !.drag_start_time = NoTime])
        /\ cursor_call' = NoCall
        /\ UNCHANGED <<pc, held, hung, display, split_call, fit_call,
                       cursor_index, cursor_rect, key_press_times, key_repeats,
                       now, pressed, other_box, rect_call>>

\* check_events, MOUSEBUTTONUP with button 1 at point, the box an InputBox:
\* the box handles the event, then end_drag() and the start of the drag is
\* forgotten; an exception of the box ends check_events
PointerUpInput ==
    \E point \in DragPoints :
        /\ ~hung
        /\ pos = display
        /\ drag_start_time # NoTime => OnGrid(now - drag_start_time)
        /\ now + TimeUnit <= MaxTime
        /\ LET up == pointer_up(IB, drag_start_pos, point)
               failed == up.ib.b.raised \/ up.ib.diverged
               t == end_drag([TextWrap EXCEPT !.b = up.ib.b], now)
           IN  /\ SetTextWrap(IF failed THEN [TextWrap EXCEPT !.b = up.ib.b]
                              ELSE [t EXCEPT !.drag_start_pos = <<>>,
                                             !.drag_start_time = NoTime])
               /\ cursor_index' = up.ib.cursor_index
               /\ cursor_rect' = up.ib.cursor_rect
               /\ hung' = up.ib.diverged
               /\ cursor_call' = [state |-> "up", point |-> point,
                                  clicked |-> up.clicked]
        /\ UNCHANGED <<pc, held, display, split_call, fit_call,
                       key_press_times, key_repeats, now, pressed, other_box,
                       rect_call>>

\* _coast_scrolls() of a render tick: coast_scroll() of the box
CoastScroll ==
    /\ ~hung
    /\ SetTextWrap(coast_scroll(TextWrap, now))
    /\ cursor_call' = NoCall
    /\ UNCHANGED <<pc, held, hung, display, split_call, fit_call,
                   cursor_index, cursor_rect, key_press_times, key_repeats,
                   now, pressed, other_box, rect_call>>

\* time passes: get_time() advances.  The clock of the model runs while a
\* drag or a coast is under way, at other times no step reads it: by a 32nd
\* of a second during a drag, which lasts at most MaxDragTime, and by a
\* quarter of a second between the render ticks of a coast
Tick ==
    /\ IF drag_start_time # NoTime
       THEN /\ now - drag_start_time < MaxDragTime
            /\ now' = now + 1
       ELSE /\ coasting(TextWrap)
            /\ now' = now + TimeUnit \div 4
    /\ now' <= MaxTime
    /\ UNCHANGED <<box_vars, pc, held, drag_speed, drag_start_time,
                   drag_end_time, dragged_lines, drags_to_go, drag_start_pos,
                   key_press_times, key_repeats, pressed, other_box,
                   rect_call>>

DragStrings == {<<"a", " ", "a">>}

InitDrag ==
    /\ InitObjects
    /\ display = <<2 * CharWidth, 2 * CharHeight>>
    /\ split_call = NoCall
    /\ fit_call = NoCall

NextDrag ==
    \/ AddText({"None"}, DragStrings, {FALSE})
    \/ Render
    \/ PointerDown
    \/ Wheel
    \/ PointerMove
    \/ PointerUp
    \/ CoastScroll
    \/ Tick

SpecDrag == InitDrag /\ [][NextDrag]_vars

\* the input box: a press and a release in place set the cursor; the events
\* of the model arrive within a 32nd of a second
NextClick ==
    \/ AddText({"None"}, DragStrings, {FALSE})
    \/ RenderInput
    \/ PointerDown
    \/ PointerMove
    \/ PointerUpInput

SpecClick == InitDrag /\ [][NextClick]_vars

(***************************************************************************)
(* C32.  A pointer-move of a drag.                                         *)
(***************************************************************************)
\* the pointer at point is a line away from the baseline of the drag: the
\* line above the scroll offset when it went down, the line at the offset
\* when it went up
LineAway(point) ==
    LET y_dist == point[2] - drag_start_pos[2]
    IN  \/ /\ y_dist > 0
           /\ 0 < line_num /\ line_num <= Len(lines)
           /\ y_dist >= lines[line_num].height
        \/ /\ y_dist < 0
           /\ line_num < Len(lines)
           /\ -y_dist >= lines[line_num + 1].height

\* the box handles a pointer-move to point as a step of a drag
DragMove(point) ==
    /\ drag_start_time # NoTime
    /\ within_box(point)
    /\ PointerMoveTo(point)

\* C32, as stated: a pointer-move of a drag changes the scroll offset by at
\* most one line; when the pointer is a line away from the baseline the
\* offset and dragged_lines change by the same +1 or -1 and the baseline is
\* the pointer position, otherwise offset, baseline and dragged_lines stay
DragStepsOffset ==
    [][\A point \in DragPoints : DragMove(point) =>
          IF LineAway(point)
          THEN /\ line_num' - line_num \in {-1, 1}
               /\ dragged_lines' - dragged_lines = line_num' - line_num
               /\ drag_start_pos' = point
          ELSE /\ line_num' = line_num
               /\ dragged_lines' = dragged_lines
               /\ drag_start_pos' = drag_start_pos]_vars

\* C32, amended: when the pointer is a line away from the baseline,
\* dragged_lines changes by +1 (pointer up) or -1 (pointer down), the
\* baseline is the pointer position and the scroll offset changes by the
\* same amount, but not past the last line, where it stays; otherwise
\* offset, baseline and dragged_lines stay
DragSteps ==
    [][\A point \in DragPoints : DragMove(point) =>
          IF LineAway(point)
          THEN LET line_amount == IF point[2] < drag_start_pos[2] THEN 1 ELSE -1
               IN  /\ dragged_lines' = dragged_lines + line_amount
                   /\ drag_start_pos' = point
                   /\ line_num' = Min(line_num + line_amount, Len(lines) - 1)
          ELSE /\ line_num' = line_num
               /\ dragged_lines' = dragged_lines
               /\ drag_start_pos' = drag_start_pos]_vars

\* a drag upwards has moved the box to the next line, and one on the last
\* line has been counted without a move
DragStepsWitness ==
    /\ drag_start_time # NoTime
    /\ Len(lines) = 4
    /\ line_num = 3
    /\ dragged_lines = 1
    /\ drag_start_pos = <<CharWidth \div 2, 1>>

\* a box of one text that is dragged and coasts: the render ticks go on and
\* the clock runs, render() calls _coast_scrolls() once per frame of the
\* interface loop
NextCoast ==
    \/ texts = <<>> /\ AddText({"None"}, DragStrings, {FALSE})
    \/ Render
    \/ PointerDown
    \/ PointerMove
    \/ PointerUp
    \/ CoastScroll
    \/ Tick

SpecCoast ==
    InitDrag /\ [][NextCoast]_vars /\ WF_vars(CoastScroll) /\ WF_vars(Tick)

(***************************************************************************)
(* C34.  The coast is off while the left button is down.                   *)
(***************************************************************************)
\* the left button went down in the box and has not come up
ButtonDown == drag_start_time # NoTime

\* C34: a left pointer-down in the box clears drag_speed, drags_to_go and
\* dragged_lines; until the pointer-up drag_speed is 0 and coast_scroll
\* leaves the scroll offset alone
PressedNoCoast ==
    [][/\ ButtonDown' =>
            /\ drag_speed' = 0
            /\ ~ButtonDown => drags_to_go' = 0 /\ dragged_lines' = 0
       /\ ButtonDown /\ CoastScroll =>
            line_num' = line_num /\ drags_to_go' = 0]_vars

\* the button went down while the box coasted, a quarter of a second after
\* a drag of a 32nd of a second that scrolled a line, and time has passed
\* since
PressedNoCoastWitness ==
    /\ ButtonDown
    /\ drag_start_time = 1 + TimeUnit \div 4
    /\ now > drag_start_time
    /\ drag_speed = 0
    /\ drags_to_go = 0

(***************************************************************************)
(* C33.  The coast after a drag.                                           *)
(***************************************************************************)
Coasting == coasting(TextWrap)

\* line_num after a scroll by n lines of a box that has lines
Scrolled(n) == Max(0, Min(line_num + n, Len(lines) - 1))

\* a tick of coast_scroll with the button up: drag_speed moves towards 0 and
\* keeps its sign; a coasting box slows down when time has passed, scrolls
\* by the whole lines of the distance covered and keeps the fraction, and
\* a box that does not coast keeps its offset and has no distance left
CoastStep ==
    ~ButtonDown /\ CoastScroll =>
        LET to_go == drags_to_go + drag_speed * (now - drag_end_time)
            gone == to_go - drags_to_go'
        IN  /\ drag_speed >= 0 => 0 <= drag_speed' /\ drag_speed' <= drag_speed
            /\ drag_speed <= 0 => drag_speed <= drag_speed' /\ drag_speed' <= 0
            /\ IF Coasting
               THEN /\ now > drag_end_time => Abs(drag_speed') < Abs(drag_speed)
                    /\ gone % LineUnit = 0
                    /\ line_num' = Scrolled(gone \div LineUnit)
                    /\ Abs(drags_to_go') <= LineUnit
                    /\ to_go >= 0 => drags_to_go' >= 0
                    /\ to_go <= 0 => drags_to_go' <= 0
               ELSE /\ line_num' = line_num
                    /\ drags_to_go' = 0
                    /\ drag_speed' = drag_speed

\* C33: after the pointer-up of a drag the ticks of coast_scroll move
\* drag_speed towards zero without changing its sign and scroll by whole
\* lines; the coast stops, and once the box does not coast (drag_speed is 0,
\* or within DRAG_DEADZONE with no distance left) coast_scroll leaves the
\* scroll offset alone and drags_to_go is 0
CoastSettles == [][CoastStep]_vars /\ (Coasting ~> ~Coasting)

\* half a second of coast has scrolled the box to its last line and left a
\* fraction of a line and a speed below the deadzone in the box, which
\* coasts on
CoastSettlesWitness ==
    /\ ~ButtonDown
    /\ Coasting
    /\ 0 < drag_speed /\ drag_speed < DRAG_DEADZONE * SpeedUnit
    /\ 0 < drags_to_go /\ drags_to_go < LineUnit
    /\ line_num = Len(lines) - 1
    /\ drag_end_time > TimeUnit \div 2
    /\ now = drag_end_time

(***************************************************************************)
(* C40.  A click in place sets the cursor of the input box.                *)
(***************************************************************************)
\* C40: a left pointer-up sets the cursor from the pointer position only
\* when no drag scroll happened since the pointer-down (dragged_lines, which
\* the pointer-down clears, counts none), and after the pointer-up
\* drag_start_pos and drag_start_time are None
ClickInPlace ==
    [][PointerUpInput /\ ~raised' /\ ~hung' =>
          /\ cursor_call'.clicked => dragged_lines = 0
          /\ drag_start_pos' = <<>>
          /\ drag_start_time' = NoTime]_vars

(***************************************************************************)
(* Held keys of the active input box.  A key that is held is repeated      *)
(* after KEY_REPEAT_THRESHOLD, then every KEY_REPEAT_TIME; both are in     *)
(* hundredths of a second.                                                 *)
(***************************************************************************)
KEY_REPEAT_TIME == 2
KEY_REPEAT_THRESHOLD == 30
Hundredths == 100          \* hundredths in a second

\* CURSOR_KEYS, the directions as strings
CURSOR_KEYS == [K_LEFT |-> "-1", K_RIGHT |-> "1", K_DOWN |-> "d", K_UP |-> "u"]

\* the keys of the keyboard of the model, in the order of their key codes
\* (the order of pygame.key.get_pressed()); pygame.key.name gives "a" for
\* the key a
KeyCodes == <<"a", "K_LEFT">>

\* get_time() > time + seconds, seconds in hundredths
later_than(current_time, time, seconds) ==
    (current_time - time) * Hundredths > seconds * TimeUnit

\* InputBox.move_cursor_direction
move_cursor_direction(ib, direction) ==
    IF ib.cursor_rect = <<>> \/ ib.b.lines = <<>> THEN ib
    ELSE IF direction \in {"-1", "1"}
    THEN move_cursor_chars(ib, IF direction = "-1" THEN -1 ELSE 1,
                           MaxCursorTries)
    ELSE move_cursor_lines(ib, IF direction = "u" THEN -1 ELSE 1, MaxCursorTries)

\* what a key does to the input box, pressed or repeated
key_action(ib, key) ==
    IF key \in DOMAIN CURSOR_KEYS
    THEN move_cursor_direction(ib, CURSOR_KEYS[key])
    ELSE insert_char(ib, key, MaxCursorTries)

\* the input box with its key repeat fields; fired holds the keys whose
\* action handle_key_repeat has run
KeyBox ==
    [ib |-> IB, key_press_times |-> key_press_times,
     key_repeats |-> key_repeats, fired |-> {}]

\* InputBox.reset_cursor_repeat
reset_cursor_repeat(kb) ==
    [kb EXCEPT !.key_press_times =
                   [k \in DOMAIN @ \ DOMAIN CURSOR_KEYS |-> @[k]],
               !.key_repeats = @ \ DOMAIN CURSOR_KEYS]

\* a reset_key_repeat(key) that forgets the time and keeps the key repeating
reset_key_repeat_time(kb, key) ==
    [kb EXCEPT !.key_press_times = DictDel(@, key)]

\* InputBox.reset_key_repeat(key)
reset_key_repeat(kb, key) ==
    [kb EXCEPT !.key_press_times = DictDel(@, key),
               !.key_repeats = @ \ {key}]

\* InputBox.handle_key_repeat, get_time() returning current_time
handle_key_repeat(kb, key, current_time) ==
    LET times == IF key \in DOMAIN kb.key_press_times THEN kb.key_press_times
                 ELSE DictSet(kb.key_press_times, key, current_time)
        last_press == times[key]
    IN  IF key \in kb.key_repeats
        THEN IF later_than(current_time, times[key], KEY_REPEAT_TIME)
             THEN [kb EXCEPT !.key_press_times = DictSet(times, key, current_time),
                             !.ib = key_action(@, key),
                             !.fired = @ \cup {key}]
             ELSE [kb EXCEPT !.key_press_times = times]
        ELSE IF later_than(current_time, last_press, KEY_REPEAT_THRESHOLD)
        THEN [kb EXCEPT !.key_repeats = @ \cup {key},
                        !.key_press_times = DictSet(times, key, current_time)]
        ELSE [kb EXCEPT !.key_press_times = times]

\* _check_held_keys: handle_key_repeat of the pressed keys, from key i on;
\* an exception ends it
RECURSIVE _check_held_keys(_, _, _, _)
_check_held_keys(kb, keys, i, current_time) ==
    IF i > Len(KeyCodes) \/ kb.ib.b.raised \/ kb.ib.diverged THEN kb
    ELSE _check_held_keys(IF KeyCodes[i] \in keys
                          THEN handle_key_repeat(kb, KeyCodes[i], current_time)
                          ELSE kb,
                          keys, i + 1, current_time)

SetKeyBox(kb) ==
    /\ SetIB(kb.ib)
    /\ key_press_times' = kb.key_press_times
    /\ key_repeats' = kb.key_repeats

\* the characters typed into the box of the model are at most MaxTyped
Typing(keys) == "a" \in keys => Len(LogicalText) < MaxTyped

\* check_events, KEYDOWN of key: handle_event of the active input box
KeyDownOf(key) ==
    /\ ~hung
    /\ pos = display
    /\ key \notin pressed
    /\ Typing({key})
    /\ pressed' = pressed \cup {key}
    /\ SetKeyBox([KeyBox EXCEPT
                     !.ib = key_action(@, key),
                     !.key_press_times =
                         IF key \in DOMAIN CURSOR_KEYS
                         THEN DictSet(@, key, now) ELSE @])
    /\ drag_speed' = 0
    /\ drag_end_time' = NoTime
    /\ dragged_lines' = 0
    /\ drags_to_go' = 0
    /\ cursor_call' = [state |-> "keydown", key |-> key]
    /\ UNCHANGED <<pc, held, display, split_call, fit_call, drag_start_time,
                   drag_start_pos, now, other_box, rect_call>>

KeyDown == \E key \in Range(KeyCodes) : KeyDownOf(key)

\* check_events, KEYUP of key: reset_cursor_repeat() and reset_key_repeat(key)
\* of every input box; handle_event of the active box has nothing to do
KeyUpOf(key) ==
    /\ ~hung
    /\ key \in pressed
    /\ pressed' = pressed \ {key}
    /\ key_press_times' = reset_key_repeat(reset_cursor_repeat(KeyBox), key).key_press_times
    /\ key_repeats' = reset_key_repeat(reset_cursor_repeat(KeyBox), key).key_repeats
    /\ cursor_call' = [state |-> "keyup", key |-> key]
    /\ UNCHANGED <<texts, new_text_list, wrapped_text_list, lines, line_num,
                   current_height, remaining_segments, pos, was_at_bottom,
                   raised, hung, display, split_call, fit_call, cursor_index,
                   cursor_rect, pc, held, drag_speed, drag_start_time,
                   drag_end_time, dragged_lines, drags_to_go, drag_start_pos,
                   now, other_box, rect_call>>

KeyUp == \E key \in Range(KeyCodes) : KeyUpOf(key)

\* the input box after _check_held_keys, and the keys it repeated
SetHeldKeys(kb) ==
    /\ SetKeyBox(kb)
    /\ cursor_call' = [state |-> "held", fired |-> kb.fired]

\* _check_held_keys() of a render tick, with the input box active
CheckHeldKeys ==
    /\ ~hung
    /\ pos = display
    /\ pressed # {}
    /\ Typing(pressed)
    /\ SetHeldKeys(_check_held_keys(KeyBox, pressed, 1, now))
    /\ UNCHANGED <<pc, held, display, split_call, fit_call, drag_speed,
                   drag_start_time, drag_end_time, dragged_lines, drags_to_go,
                   drag_start_pos, now, pressed, other_box, rect_call>>

\* the time between two steps of the interface thread while a key is held:
\* a 32nd or a third of a second
KeyTimeSteps == {1, TimeUnit \div 3}

\* time passes while a key is held
KeyTick ==
    \E elapsed \in KeyTimeSteps :
        /\ pressed # {}
        /\ now + elapsed <= MaxKeyTime
        /\ now' = now + elapsed
        /\ UNCHANGED <<box_vars, pc, held, drag_speed, drag_start_time,
                       drag_end_time, dragged_lines, drags_to_go, drag_start_pos,
                       key_press_times, key_repeats, pressed, other_box,
                       rect_call>>

InitKeys == InitDrag

NextKeys ==
    \/ texts = <<>> /\ AddText({"None"}, {<<"a">>}, {FALSE})
    \/ RenderInput
    \/ KeyDown
    \/ KeyUp
    \/ CheckHeldKeys
    \/ KeyTick

SpecKeys == InitKeys /\ [][NextKeys]_vars

(***************************************************************************)
(* C31.  A key-up forgets the timing of the key.                           *)
(***************************************************************************)
\* C31: after the key-up of a key the key has no entry in key_press_times
\* and is not in key_repeats; a held key is repeated, and starts to repeat,
\* only on an entry of key_press_times that is older than the tick, and
\* every entry is the time at which it was made, so no repeat comes from
\* the timing of before the key-up
KeyUpClears ==
    [][/\ \A key \in Range(KeyCodes) : KeyUpOf(key) =>
              key \notin DOMAIN key_press_times' /\ key \notin key_repeats'
       /\ CheckHeldKeys =>
              \A key \in cursor_call'.fired :
                  /\ key \in key_repeats
                  /\ key \in DOMAIN key_press_times
                  /\ later_than(now, key_press_times[key], KEY_REPEAT_TIME)
       /\ \A key \in key_repeats' \ key_repeats :
              /\ key \in DOMAIN key_press_times
              /\ later_than(now, key_press_times[key], KEY_REPEAT_THRESHOLD)
       /\ \A key \in DOMAIN key_press_times' :
              key \notin DOMAIN key_press_times
                  \/ key_press_times'[key] # key_press_times[key]
              => key_press_times'[key] = now']_vars

\* the key a went up after it was held for a third of a second and was
\* repeated, while the left arrow is held
KeyUpClearsWitness ==
    /\ cursor_call = [state |-> "keyup", key |-> "a"]
    /\ "K_LEFT" \in pressed
    /\ "a" \notin DOMAIN key_press_times
    /\ "a" \notin key_repeats
    /\ now > TimeUnit \div 3
    /\ Len(LogicalText) = MaxTyped

(***************************************************************************)
(* TextBox._get_rect.  The pins are Python floats and the products and     *)
(* differences are rounded as IEEE 754 doubles are, to the nearest value   *)
(* of 53 significant bits, ties to even.  A float that is not negative is  *)
(* the sequence of its bits, lowest first, in units of 2^-Scale; sums with *)
(* carries are made on limbs of LimbBits bits.                             *)
(***************************************************************************)
Scale == 60
Mantissa == 53
LimbBits == 15
Limb == 2 ^ LimbBits
Percent == 100             \* the pins of the model are hundredths

Zeros(n) == [i \in 1..n |-> 0]

\* the int of at most 30 bits
RECURSIVE BitsInt(_)
BitsInt(bits) == IF bits = <<>> THEN 0 ELSE bits[1] + 2 * BitsInt(Tail(bits))

\* the limbs of bits, lowest first
Limbs(bits) ==
    [k \in 1..((Len(bits) + LimbBits - 1) \div LimbBits) |->
        BitsInt(SubSeq(bits, LimbBits * (k - 1) + 1,
                       Min(LimbBits * k, Len(bits))))]

\* the bits of limbs
Bits(limbs) ==
    [i \in 1..(LimbBits * Len(limbs)) |->
        (limbs[(i - 1) \div LimbBits + 1] \div 2 ^ ((i - 1) % LimbBits)) % 2]

\* the bits of an int n >= 0
IntBits(n) == Bits(<<n % Limb, (n \div Limb) % Limb, n \div (Limb * Limb)>>)

\* bits without the zeros at the high end
Trim(bits) ==
    LET ones == {i \in 1..Len(bits) : bits[i] = 1}
    IN  IF ones = {} THEN <<>>
        ELSE SubSeq(bits, 1, CHOOSE i \in ones : \A j \in ones : j <= i)

\* bits + 1
Increment(bits) ==
    LET zeros == {i \in 1..Len(bits) : bits[i] = 0}
        low == IF zeros = {} THEN Len(bits) + 1
               ELSE CHOOSE i \in zeros : \A j \in zeros : i <= j
    IN  [i \in 1..Max(Len(bits), low) |->
            IF i < low THEN 0 ELSE IF i = low THEN 1 ELSE bits[i]]

\* a rounding that cuts the bits below the 53 highest
round_down(exact, sticky) ==
    LET bits == Trim(exact)
        cut == Len(bits) - Mantissa
    IN  IF cut <= 0 THEN bits
        ELSE Zeros(cut) \o SubSeq(bits, cut + 1, Len(bits))

\* the double nearest to the exact value bits, ties to even; sticky tells
\* that the exact value lies above bits by less than a unit
round(exact, sticky) ==
    LET bits == Trim(exact)
        cut == Len(bits) - Mantissa
    IN  IF cut <= 0 THEN bits
        ELSE LET kept == SubSeq(bits, cut + 1, Len(bits))
                 rest == sticky \/ \E i \in 1..(cut - 1) : bits[i] = 1
                 up == bits[cut] = 1 /\ (rest \/ kept[1] = 1)
             IN  Zeros(cut) \o (IF up THEN Increment(kept) ELSE kept)

\* the first n limbs of rem / Percent behind the point, highest first, and
\* what is left of rem: a long division
quotient_limbs(rem, n) ==
    LET left[k \in 0..n] ==
            IF k = 0 THEN rem ELSE (left[k - 1] * Limb) % Percent
    IN  [limbs |-> [k \in 1..n |-> (left[k - 1] * Limb) \div Percent],
         rem |-> left[n]]

\* the float of the literal of hundredths / 100, which is 0 or at least
\* 1/64: the division goes a limb below the unit
float(hundredths) ==
    LET n == Scale \div LimbBits + 1
        q == quotient_limbs(hundredths % Percent, n)
    IN  Drop(round(Bits([k \in 1..n |-> q.limbs[n + 1 - k]])
                       \o IntBits(hundredths \div Percent),
                   q.rem # 0),
             LimbBits)

\* the bits of bits * n, for an int 0 <= n < Limb
times(bits, n) ==
    LET limbs == Limbs(bits)
        carry[k \in 0..Len(limbs)] ==
            IF k = 0 THEN 0 ELSE (limbs[k] * n + carry[k - 1]) \div Limb
    IN  Bits([k \in 1..Len(limbs) |-> (limbs[k] * n + carry[k - 1]) % Limb]
                 \o <<carry[Len(limbs)]>>)

\* x * n of a float x and an int n
float_mul(x, n) == round(times(x, n), FALSE)

\* the bits of x - y, for x >= y
minus(x, y) ==
    LET xs == Limbs(x)
        ys == Limbs(y)
        limb(k) == xs[k] - (IF k <= Len(ys) THEN ys[k] ELSE 0)
        borrow[k \in 0..Len(xs)] ==
            IF k = 0 THEN 0
            ELSE IF limb(k) - borrow[k - 1] < 0 THEN 1 ELSE 0
    IN  Bits([k \in 1..Len(xs) |-> (limb(k) - borrow[k - 1] + Limb) % Limb])

\* x - y of floats x >= y
float_sub(x, y) == round(minus(x, y), FALSE)

\* int(x) of a float x
float_int(x) == BitsInt(Drop(x, Scale))

\* TextBox._get_rect(width, height) of a box with the pins
_get_rect(pins, width, height) ==
    LET pos0 == float_mul(pins[1], width)
        pos1 == float_mul(pins[2], height)
        pos2 == float_sub(float_mul(pins[3], width), pos0)
        pos3 == float_sub(float_mul(pins[4], height), pos1)
    IN  <<float_int(pos0), float_int(pos1), float_int(pos2), float_int(pos3)>>

\* the pins of the boxes, in hundredths: the two boxes of the doctest of
\* _get_rect, the two boxes of wrap_tests/brute.py and two boxes of thirds
RectPins ==
    {<<0, 0, 50, 100>>, <<30, 30, 60, 100>>,
     <<10, 10, 45, 90>>, <<55, 10, 90, 90>>,
     <<33, 33, 66, 100>>, <<29, 29, 58, 100>>}

\* widths and heights of the display
RectSizes == {100, 250, 300, 500, 1000}

\* TextBox(pins)._get_rect(width, height)
GetRect ==
    \E pins \in RectPins, width \in RectSizes, height \in RectSizes :
        /\ rect_call' =
               [state |-> "returned", pins |-> pins, width |-> width,
                height |-> height,
                rect |-> _get_rect([i \in 1..4 |-> float(pins[i])],
                                   width, height)]
        /\ UNCHANGED <<box_vars, pc, held, drag_speed, drag_start_time,
                       drag_end_time, dragged_lines, drags_to_go,
                       drag_start_pos, key_press_times, key_repeats, now,
                       pressed, other_box>>

InitRect == InitDrag

NextRect == GetRect

SpecRect == InitRect /\ [][NextRect]_vars

(***************************************************************************)
(* C35 as stated: _get_rect returns the first two pins as fractions of the *)
(* width and the height and the distances to the corner of the last two    *)
(* pins, each truncated to an integer, the fractions taken exactly; pins   *)
(* [0, 0, .5, 1] on 500x300 give [0, 0, 250, 300] and pins [.3, .3, .6, 1] *)
(* on 100x250 give [30, 75, 30, 175].                                      *)
(***************************************************************************)
\* the four values of _get_rect in hundredths of a pixel, computed exactly
exact_rect(pins, width, height) ==
    <<pins[1] * width, pins[2] * height,
      (pins[3] - pins[1]) * width, (pins[4] - pins[2]) * height>>

DoctestRects ==
    /\ (rect_call.pins = <<0, 0, 50, 100>> /\ rect_call.width = 500
            /\ rect_call.height = 300)
        => rect_call.rect = <<0, 0, 250, 300>>
    /\ (rect_call.pins = <<30, 30, 60, 100>> /\ rect_call.width = 100
            /\ rect_call.height = 250)
        => rect_call.rect = <<30, 75, 30, 175>>

RectExact ==
    rect_call.state = "returned" =>
        /\ \A i \in 1..4 :
               rect_call.rect[i] =
                   exact_rect(rect_call.pins, rect_call.width,
                              rect_call.height)[i] \div Percent
        /\ DoctestRects

(***************************************************************************)
(* C35 amended: the products and the differences are those of floats, so   *)
(* each of x, y, w, h is the truncated exact value, or one less than it    *)
(* where the exact value is a whole number that the floats fall short of;  *)
(* the two rectangles of the doctest are returned as stated.               *)
(***************************************************************************)
RectOfFloats ==
    rect_call.state = "returned" =>
        /\ \A i \in 1..4 :
               LET exact == exact_rect(rect_call.pins, rect_call.width,
                                       rect_call.height)[i]
               IN  \/ rect_call.rect[i] = exact \div Percent
                   \/ /\ exact % Percent = 0
                      /\ rect_call.rect[i] = exact \div Percent - 1
        /\ DoctestRects

\* the box of wrap_tests/brute.py with the pins [.55, .1, .9, .9] on a
\* display 100 wide: .55 * 100 is 55.00000000000001 and w is 34, not 35
RectOfFloatsWitness ==
    /\ rect_call.state = "returned"
    /\ rect_call.pins = <<55, 10, 90, 90>>
    /\ rect_call.width = 100
    /\ rect_call.rect[1] = 55
    /\ rect_call.rect[3] = 34

=============================================================================
